---- MODULE Spec2Model ----
(***************************************************************************)
(* Model of the GitHub webhook receiver of workflow-plugin-github:         *)
(* signature validation, payload normalization and the handleWebhook       *)
(* request pipeline (internal/webhook module).                             *)
(*                                                                         *)
(* Strings that are only compared are TLA+ strings.  The signature header  *)
(* is a sequence of characters, because the code takes a prefix of it.     *)
(* A JSON value is a record with a tag t:                                  *)
(*   [t |-> "str", s |-> ...]   a JSON string                              *)
(*   [t |-> "num"]              any JSON value that is neither a string    *)
(*                              nor an object (number, bool, array, null)  *)
(*   [t |-> "obj", f |-> ...]   a JSON object, f a function on its keys    *)
(***************************************************************************)
EXTENDS Integers, Sequences, FiniteSets, TLC

VARIABLES
    config,      \* webhookModule.config (webhookConfig)
    publisher,   \* webhookModule.publisher: "nil" or "sink"
    pc,          \* position of the handler goroutine of the current delivery
    req,         \* the *http.Request of the current delivery
    body,        \* local `body` of handleWebhook
    eventType,   \* local `eventType` of handleWebhook
    event,       \* local `event` of handleWebhook
    resp,        \* what the handler wrote to the http.ResponseWriter
    steps,       \* the checks the handler ran for this delivery, in order
    pubCalls,    \* the Publish calls made for this delivery
    delivered,   \* deliveries that reached the handler so far
    nPublished,  \* Publish calls received by the sink so far
    sigIn,       \* arguments of a direct call of validateSignature
    sigOut,      \* its result
    normIn,      \* arguments of a direct call of normalizeGitHubEvent
    normOut,     \* its result
    step,        \* the workflow step under execution: its kind and parsed config
    args,        \* triggerData, stepOutputs and current passed to Execute
    stPc,        \* position of the goroutine running the step's Execute
    clock,       \* the time (what time.Now returns)
    deadline,    \* local `deadline` of actionStatusStep.Execute
    ctxDone,     \* the caller's context is cancelled (ctx.Done() is closed)
    cancelledDuring, \* where Execute was when the context was cancelled
    timer,       \* when the channel of time.After(PollInterval) becomes ready
    elapsed,     \* time has passed since the call in flight was made
    calls,       \* calls made to the GitHubClient by this execution, in order
    waits,       \* inter-poll waits that ended with the timer
    result,      \* the *sdk.StepResult returned by Execute
    execErr,     \* the error returned by Execute beside it
    resolveIn,   \* arguments of a direct call of resolveField
    resolveOut,  \* that call's position, its local `result` and iterations made
    parked       \* the locals of the goroutine that is not running, when two run

vars == <<config, publisher, pc, req, body, eventType, event, resp, steps,
          pubCalls, delivered, nPublished, sigIn, sigOut, normIn, normOut,
          step, args, stPc, clock, deadline, ctxDone, cancelledDuring, timer, elapsed,
          calls, waits, result, execErr, resolveIn, resolveOut, parked>>

webhookVars == <<config, publisher, pc, req, body, eventType, event, resp,
                 steps, pubCalls, delivered, nPublished>>

stepVars == <<step, args, stPc, clock, deadline, ctxDone, cancelledDuring, timer, elapsed,
              calls, waits, result, execErr>>

resolveVars == <<resolveIn, resolveOut>>

(***************************************************************************)
(* Bounds                                                                  *)
(***************************************************************************)
MaxDeliveries == 2

(***************************************************************************)
(* JSON values                                                             *)
(***************************************************************************)
Str(s) == [t |-> "str", s |-> s]

Num == [t |-> "num"]

Obj(f) == [t |-> "obj", f |-> f]

EmptyMap == [k \in {} |-> Num]

\* m[key] of a Go map[string]any followed by the comma-ok assertion
\* .(map[string]any): the map and true, or the nil map and false.
IsMapAt(m, key) == key \in DOMAIN m /\ m[key].t = "obj"

MapAt(m, key) == IF IsMapAt(m, key) THEN m[key].f ELSE EmptyMap

\* m[key] followed by `x, _ = m[key].(string)`: the string, or "".
StringAt(m, key) == IF key \in DOMAIN m /\ m[key].t = "str" THEN m[key].s ELSE ""

(***************************************************************************)
(* Request bodies                                                          *)
(*                                                                         *)
(* A body is [doc, len]: the JSON document it spells and its length in     *)
(* bytes (JSON allows trailing white space, so the two are independent).   *)
(* A document is one of                                                    *)
(*   [k |-> "malformed"]           not JSON at all ("not json")            *)
(*   [k |-> "scalar"]              valid JSON, top level neither an object *)
(*                                 nor null (array, string, number, bool)  *)
(*   [k |-> "null"]                the JSON literal null                   *)
(*   [k |-> "object", f |-> ...]   a JSON object                           *)
(***************************************************************************)
Malformed == [k |-> "malformed"]

Scalar == [k |-> "scalar"]

Null == [k |-> "null"]

Object(f) == [k |-> "object", f |-> f]

\* the two payloads of TestHandleWebhook_PublishesEvent / _FilteredEvent and
\* one whose fields all have the wrong type
PushDoc ==
    Object([ref |-> Str("refs/heads/main"),
            head_commit |-> Obj([id |-> Str("abc123"),
                                 message |-> Str("fix bug"),
                                 url |-> Str("https://github.com"),
                                 author |-> Obj([username |-> Str("alice")])]),
            repository |-> Obj([full_name |-> Str("owner/repo")])])

EmptyDoc == Object(EmptyMap)

WrongTypesDoc ==
    Object([ref |-> Num, head_commit |-> Str("x"), repository |-> Str("owner/repo"),
            sender |-> Num])

Docs == <<Malformed, Scalar, Null, EmptyDoc, PushDoc, WrongTypesDoc>>

DocId(d) == CHOOSE i \in 1..Len(Docs) : Docs[i] = d

maxBytes == 25 * 1024 * 1024

SmallLen == 512

BodyLens == <<SmallLen, maxBytes, maxBytes + 1, 2 * maxBytes>>

LenId(n) == CHOOSE i \in 1..Len(BodyLens) : BodyLens[i] = n

Secrets == <<"", "s1", "s2">>

SecretId(s) == CHOOSE i \in 1..Len(Secrets) : Secrets[i] = s

NoBody == [doc |-> Malformed, len |-> 0]

(***************************************************************************)
(* validateSignature / computeSignature                                    *)
(***************************************************************************)
HexDigits == <<"0", "1", "2", "3", "4", "5", "6", "7",
               "8", "9", "a", "b", "c", "d", "e", "f">>

\* hex.EncodeToString: two lower-case hex digits per byte
RECURSIVE hexEncodeToString(_)
hexEncodeToString(bytes) ==
    IF bytes = <<>> THEN <<>>
    ELSE <<HexDigits[(bytes[1] \div 16) + 1], HexDigits[(bytes[1] % 16) + 1]>>
         \o hexEncodeToString(Tail(bytes))

\* hmac.New(sha256.New, secret); mac.Write(body); mac.Sum(nil).
\* The digest is an injective function of (body, secret): one byte for the
\* document, one for the length and one for the secret.
hmacSHA256(b, secret) == <<DocId(b.doc), LenId(b.len), 16 * SecretId(secret)>>

computeSignature(b, secret) == hexEncodeToString(hmacSHA256(b, secret))

prefix == <<"s", "h", "a", "2", "5", "6", "=">>

\* strings.HasPrefix
HasPrefix(s, p) == Len(s) >= Len(p) /\ SubSeq(s, 1, Len(p)) = p

\* hmac.Equal: true iff the two byte slices are equal
hmacEqual(a, b) == a = b

\* validateSignature computing the digest with an empty key
validateSignature_EmptyKey(b, secret, sig) ==
    IF ~HasPrefix(sig, prefix) THEN FALSE
    ELSE hmacEqual(SubSeq(sig, Len(prefix) + 1, Len(sig)), computeSignature(b, ""))

\* validateSignature stripping the prefix when present instead of requiring it
validateSignature_TrimPrefix(b, secret, sig) ==
    hmacEqual(IF HasPrefix(sig, prefix) THEN SubSeq(sig, Len(prefix) + 1, Len(sig)) ELSE sig,
              computeSignature(b, secret))

validateSignature(b, secret, sig) ==
    IF ~HasPrefix(sig, prefix) THEN FALSE
    ELSE hmacEqual(SubSeq(sig, Len(prefix) + 1, Len(sig)), computeSignature(b, secret))

\* signBody of the tests: what GitHub sends for body b signed with secret
signBody(secret, b) == prefix \o computeSignature(b, secret)

(***************************************************************************)
(* parseWebhookConfig                                                      *)
(*                                                                         *)
(* A raw config is a function on the keys present.  provider, secret and   *)
(* topic hold JSON-like values; events holds a list of them.               *)
(***************************************************************************)
\* containsString
containsString(slice, s) == \E i \in 1..Len(slice) : slice[i] = s

\* the loop of part_000:75-81: keep the elements that are strings
RECURSIVE stringElems(_)
stringElems(list) ==
    IF list = <<>> THEN <<>>
    ELSE IF list[1].t = "str" THEN <<list[1].s>> \o stringElems(Tail(list))
    ELSE stringElems(Tail(list))

parseWebhookConfig(raw) ==
    [Provider |-> IF StringAt(raw, "provider") = "" THEN "github"
                  ELSE StringAt(raw, "provider"),
     Secret   |-> StringAt(raw, "secret"),
     Events   |-> IF "events" \in DOMAIN raw /\ raw["events"].t = "list"
                  THEN stringElems(raw["events"].l) ELSE <<>>,
     Topic    |-> IF StringAt(raw, "topic") = "" THEN "git.events"
                  ELSE StringAt(raw, "topic")]

List(l) == [t |-> "list", l |-> l]

\* restriction of a function to the keys whose value is not the marker
Present(full, absent) == [k \in {x \in DOMAIN full : full[x] # absent} |-> full[k]]

Absent == [t |-> "absent"]

RawConfigs ==
    { Present([secret |-> sec, events |-> evs, topic |-> tp.topic,
               provider |-> tp.provider], Absent) :
        sec \in {Absent, Str("s1")},
        evs \in {Absent, List(<<Str("push")>>), List(<<Num, Str("push"), Str("star")>>)},
        tp \in {[topic |-> Absent, provider |-> Absent],
                [topic |-> Str("custom.topic"), provider |-> Str("gitlab")]} }

(***************************************************************************)
(* normalizeGitHubEvent and the per-type extractors                        *)
(***************************************************************************)
\* The ref strings of the model.  A TLA+ string is atomic, so each one is
\* given with its spelling; the set is closed under removal of the prefix.
RefStrings ==
    {"", "refs/heads/main", "main", "refs/heads/feature/xyz",
     "feature/xyz", "refs/heads/", "refs/heads", "refs/tags/v1",
     "v2.0.0", "refs/heads/x", "x", "refs/heads/refs/heads/x",
     "x/refs/heads/y"}

\* the characters of a string of the model (refs, template values and keys)
Chars(str) ==
    CASE str = "" ->
           <<>>
      [] str = "refs/heads/main" ->
           <<"r", "e", "f", "s", "/", "h", "e", "a", "d", "s", "/", "m", "a", "i", "n">>
      [] str = "main" ->
           <<"m", "a", "i", "n">>
      [] str = "refs/heads/feature/xyz" ->
           <<"r", "e", "f", "s", "/", "h", "e", "a", "d", "s", "/", "f", "e", "a", "t", "u", "r", "e", "/", "x", "y", "z">>
      [] str = "feature/xyz" ->
           <<"f", "e", "a", "t", "u", "r", "e", "/", "x", "y", "z">>
      [] str = "refs/heads/" ->
           <<"r", "e", "f", "s", "/", "h", "e", "a", "d", "s", "/">>
      [] str = "refs/heads" ->
           <<"r", "e", "f", "s", "/", "h", "e", "a", "d", "s">>
      [] str = "refs/tags/v1" ->
           <<"r", "e", "f", "s", "/", "t", "a", "g", "s", "/", "v", "1">>
      [] str = "v2.0.0" ->
           <<"v", "2", ".", "0", ".", "0">>
      [] str = "refs/heads/x" ->
           <<"r", "e", "f", "s", "/", "h", "e", "a", "d", "s", "/", "x">>
      [] str = "x" ->
           <<"x">>
      [] str = "refs/heads/refs/heads/x" ->
           <<"r", "e", "f", "s", "/", "h", "e", "a", "d", "s", "/", "r", "e", "f", "s", "/", "h", "e", "a", "d", "s", "/", "x">>
      [] str = "x/refs/heads/y" ->
           <<"x", "/", "r", "e", "f", "s", "/", "h", "e", "a", "d", "s", "/", "y">>
      [] str = "{{" ->
           <<"{", "{">>
      [] str = "}}" ->
           <<"}", "}">>
      [] str = "." ->
           <<".">>
      [] str = "steps" ->
           <<"s", "t", "e", "p", "s">>
      [] str = "current" ->
           <<"c", "u", "r", "r", "e", "n", "t">>
      [] str = "{{.owner}}" ->
           <<"{", "{", ".", "o", "w", "n", "e", "r", "}", "}">>
      [] str = "owner" ->
           <<"o", "w", "n", "e", "r">>
      [] str = "acme" ->
           <<"a", "c", "m", "e">>
      [] str = "app" ->
           <<"a", "p", "p">>
      [] str = "ci.yml" ->
           <<"c", "i", ".", "y", "m", "l">>
      [] str = "{{.steps.prev.ref}}" ->
           <<"{", "{", ".", "s", "t", "e", "p", "s", ".", "p", "r", "e", "v", ".", "r", "e", "f", "}", "}">>
      [] str = "prev" ->
           <<"p", "r", "e", "v">>
      [] str = "ref" ->
           <<"r", "e", "f">>
      [] str = "dev" ->
           <<"d", "e", "v">>
      [] str = "{{.current.env}}" ->
           <<"{", "{", ".", "c", "u", "r", "r", "e", "n", "t", ".", "e", "n", "v", "}", "}">>
      [] str = "env" ->
           <<"e", "n", "v">>
      [] str = "staging" ->
           <<"s", "t", "a", "g", "i", "n", "g">>
      [] str = "{{ .commit }}" ->
           <<"{", "{", " ", ".", "c", "o", "m", "m", "i", "t", " ", "}", "}">>
      [] str = "commit" ->
           <<"c", "o", "m", "m", "i", "t">>
      [] str = "abc123" ->
           <<"a", "b", "c", "1", "2", "3">>
      [] str = "{{.missing}}" ->
           <<"{", "{", ".", "m", "i", "s", "s", "i", "n", "g", "}", "}">>
      [] str = "{{.steps.trigger.run_id}}" ->
           <<"{", "{", ".", "s", "t", "e", "p", "s", ".", "t", "r", "i", "g", "g", "e", "r", ".", "r", "u", "n", "_", "i", "d", "}", "}">>
      [] str = "trigger" ->
           <<"t", "r", "i", "g", "g", "e", "r">>
      [] str = "run_id" ->
           <<"r", "u", "n", "_", "i", "d">>
      [] str = "7" ->
           <<"7">>

\* the ref string with these characters
FromChars(cs) == CHOOSE str \in RefStrings : Chars(str) = cs

\* strings.TrimPrefix
TrimPrefix(cs, p) == IF HasPrefix(cs, p) THEN SubSeq(cs, Len(p) + 1, Len(cs)) ELSE cs

\* strings.TrimPrefix(ref, "refs/heads/")
TrimPrefixRefsHeads(ref) == FromChars(TrimPrefix(Chars(ref), Chars("refs/heads/")))

\* json.Unmarshal(body, &payload) with payload a nil map[string]any:
\* a syntax error for a malformed document, an UnmarshalTypeError for a
\* top-level array, string, number or bool; null leaves the map nil.
jsonUnmarshal(b) ==
    CASE b.doc.k = "object" -> [err |-> FALSE, payload |-> b.doc.f]
      [] b.doc.k = "null" -> [err |-> FALSE, payload |-> EmptyMap]
      [] OTHER -> [err |-> TRUE, payload |-> EmptyMap]

NoEvent == [nil |-> TRUE]

\* &GitEvent{Provider: "github", EventType: eventType, RawPayload: body,
\*           Timestamp: time.Now().UTC()} and the repository extraction
newEvent(evType, b, payload, now) ==
    [nil |-> FALSE, Provider |-> "github", EventType |-> evType,
     Repository |-> StringAt(MapAt(payload, "repository"), "full_name"),
     Branch |-> "", Commit |-> "", Author |-> "", Message |-> "", URL |-> "",
     RawPayload |-> b, Timestamp |-> now]

\* normalizePushEvent letting the pusher replace a commit author already found
normalizePushEvent_PusherOverrides(ev, payload) ==
    LET headCommit == MapAt(payload, "head_commit")
        author == MapAt(headCommit, "author")
        a1 == IF IsMapAt(payload, "head_commit")
              THEN IF IsMapAt(headCommit, "author")
                   THEN IF StringAt(author, "username") # ""
                        THEN StringAt(author, "username")
                        ELSE StringAt(author, "name")
                   ELSE ev.Author
              ELSE ev.Author
        a2 == IF IsMapAt(payload, "pusher")
              THEN StringAt(MapAt(payload, "pusher"), "name") ELSE a1
        a3 == IF IsMapAt(payload, "sender") /\ a2 = ""
              THEN StringAt(MapAt(payload, "sender"), "login") ELSE a2
    IN [ev EXCEPT
          !.Branch = TrimPrefixRefsHeads(StringAt(payload, "ref")),
          !.Commit = IF IsMapAt(payload, "head_commit") THEN StringAt(headCommit, "id")
                     ELSE StringAt(payload, "after"),
          !.Message = IF IsMapAt(payload, "head_commit")
                      THEN StringAt(headCommit, "message") ELSE ev.Message,
          !.URL = IF IsMapAt(payload, "head_commit")
                  THEN StringAt(headCommit, "url") ELSE ev.URL,
          !.Author = a3]

normalizePushEvent(ev, payload) ==
    LET headCommit == MapAt(payload, "head_commit")
        author == MapAt(headCommit, "author")
        a1 == IF IsMapAt(payload, "head_commit")
              THEN IF IsMapAt(headCommit, "author")
                   THEN IF StringAt(author, "username") # ""
                        THEN StringAt(author, "username")
                        ELSE StringAt(author, "name")
                   ELSE ev.Author
              ELSE ev.Author
        a2 == IF IsMapAt(payload, "pusher") /\ a1 = ""
              THEN StringAt(MapAt(payload, "pusher"), "name") ELSE a1
        a3 == IF IsMapAt(payload, "sender") /\ a2 = ""
              THEN StringAt(MapAt(payload, "sender"), "login") ELSE a2
    IN [ev EXCEPT
          !.Branch = TrimPrefixRefsHeads(StringAt(payload, "ref")),
          !.Commit = IF IsMapAt(payload, "head_commit") THEN StringAt(headCommit, "id")
                     ELSE StringAt(payload, "after"),
          !.Message = IF IsMapAt(payload, "head_commit")
                      THEN StringAt(headCommit, "message") ELSE ev.Message,
          !.URL = IF IsMapAt(payload, "head_commit")
                  THEN StringAt(headCommit, "url") ELSE ev.URL,
          !.Author = a3]

normalizePREvent(ev, payload) ==
    LET pr == MapAt(payload, "pull_request")
    IN IF ~IsMapAt(payload, "pull_request") THEN ev
       ELSE [ev EXCEPT
               !.Message = StringAt(pr, "title"),
               !.URL = StringAt(pr, "html_url"),
               !.Branch = IF IsMapAt(pr, "head") THEN StringAt(MapAt(pr, "head"), "ref")
                          ELSE ev.Branch,
               !.Commit = IF IsMapAt(pr, "head") THEN StringAt(MapAt(pr, "head"), "sha")
                          ELSE ev.Commit,
               !.Author = IF IsMapAt(pr, "user") THEN StringAt(MapAt(pr, "user"), "login")
                          ELSE ev.Author]

normalizeReleaseEvent(ev, payload) ==
    LET release == MapAt(payload, "release")
    IN IF ~IsMapAt(payload, "release") THEN ev
       ELSE [ev EXCEPT
               !.Message = StringAt(release, "tag_name"),
               !.URL = StringAt(release, "html_url"),
               !.Branch = StringAt(release, "tag_name"),
               !.Author = IF IsMapAt(release, "author")
                          THEN StringAt(MapAt(release, "author"), "login")
                          ELSE ev.Author]

\* normalizeRefEvent stripping the branch prefix as the push extractor does
normalizeRefEvent_TrimPrefix(ev, payload) ==
    [ev EXCEPT
       !.Branch = TrimPrefixRefsHeads(StringAt(payload, "ref")),
       !.Author = IF IsMapAt(payload, "sender")
                  THEN StringAt(MapAt(payload, "sender"), "login") ELSE ev.Author]

normalizeRefEvent(ev, payload) ==
    [ev EXCEPT
       !.Branch = StringAt(payload, "ref"),
       !.Author = IF IsMapAt(payload, "sender")
                  THEN StringAt(MapAt(payload, "sender"), "login") ELSE ev.Author]

\* normalizeGenericEvent also taking the branch from the ref field
normalizeGenericEvent_CopyRef(ev, payload) ==
    [ev EXCEPT
       !.Branch = StringAt(payload, "ref"),
       !.Author = IF IsMapAt(payload, "sender")
                  THEN StringAt(MapAt(payload, "sender"), "login") ELSE ev.Author]

normalizeGenericEvent(ev, payload) ==
    [ev EXCEPT
       !.Author = IF IsMapAt(payload, "sender")
                  THEN StringAt(MapAt(payload, "sender"), "login") ELSE ev.Author]

\* normalizeGitHubEvent refusing a payload without a repository name
normalizeGitHubEvent_RequireRepository(evType, b, now) ==
    LET u == jsonUnmarshal(b)
        ev == newEvent(evType, b, u.payload, now)
    IN IF u.err \/ ev.Repository = "" THEN [err |-> TRUE, event |-> NoEvent]
       ELSE [err |-> FALSE,
             event |-> CASE evType = "push" -> normalizePushEvent(ev, u.payload)
                         [] evType = "pull_request" -> normalizePREvent(ev, u.payload)
                         [] evType = "release" -> normalizeReleaseEvent(ev, u.payload)
                         [] evType \in {"create", "delete"} -> normalizeRefEvent(ev, u.payload)
                         [] OTHER -> normalizeGenericEvent(ev, u.payload)]

\* returns (event, err): err set and event nil exactly when Unmarshal fails
normalizeGitHubEvent(evType, b, now) ==
    LET u == jsonUnmarshal(b)
        ev == newEvent(evType, b, u.payload, now)
    IN IF u.err THEN [err |-> TRUE, event |-> NoEvent]
       ELSE [err |-> FALSE,
             event |-> CASE evType = "push" -> normalizePushEvent(ev, u.payload)
                         [] evType = "pull_request" -> normalizePREvent(ev, u.payload)
                         [] evType = "release" -> normalizeReleaseEvent(ev, u.payload)
                         [] evType \in {"create", "delete"} -> normalizeRefEvent(ev, u.payload)
                         [] OTHER -> normalizeGenericEvent(ev, u.payload)]

\* a header value holding the byte 0xff, which is not valid UTF-8 (net/http
\* accepts every byte but control characters in a header value)
InvalidUTF8 == "star\\xff"

\* json.Marshal encodes a string coerced to valid UTF-8: each invalid byte
\* becomes the replacement character U+FFFD
toValidUTF8(str) == IF str = InvalidUTF8 THEN "star\\ufffd" ELSE str

\* json.Marshal(event): the struct's fields under their json tags, strings
\* coerced to valid UTF-8.  The only field whose encoding can fail is
\* RawPayload (json.RawMessage), which must itself be valid JSON.
jsonMarshal(ev) ==
    IF ev.RawPayload.doc.k = "malformed"
    THEN [err |-> TRUE, json |-> EmptyMap]
    ELSE [err |-> FALSE,
          json |-> [provider |-> toValidUTF8(ev.Provider),
                    event_type |-> toValidUTF8(ev.EventType),
                    repository |-> toValidUTF8(ev.Repository),
                    branch |-> toValidUTF8(ev.Branch),
                    commit |-> toValidUTF8(ev.Commit),
                    author |-> toValidUTF8(ev.Author),
                    message |-> toValidUTF8(ev.Message),
                    url |-> toValidUTF8(ev.URL),
                    raw_payload |-> ev.RawPayload.doc, timestamp |-> ev.Timestamp]]

(***************************************************************************)
(* readLimitedBody                                                         *)
(*                                                                         *)
(* A request carries the document and the number of bytes the client       *)
(* sends, and whether reading its body fails with an I/O error.            *)
(***************************************************************************)
Min(a, b) == IF a < b THEN a ELSE b

\* readLimitedBody refusing a body of exactly max bytes
readLimitedBody_RejectAtLimit(r, max) ==
    LET n == Min(r.len, max + 1)
    IN IF r.ioErr \/ n >= max THEN [err |-> TRUE, buf |-> NoBody, read |-> n]
       ELSE [err |-> FALSE, buf |-> [doc |-> r.doc, len |-> n], read |-> n]

\* io.LimitReader(r.Body, maxBytes+1) then io.ReadAll: at most max+1 bytes
\* are read (`read`); a read error or a buffer longer than max is an error.
readLimitedBody(r, max) ==
    LET n == Min(r.len, max + 1)
    IN IF r.ioErr \/ n > max THEN [err |-> TRUE, buf |-> NoBody, read |-> n]
       ELSE [err |-> FALSE, buf |-> [doc |-> r.doc, len |-> n], read |-> n]

(***************************************************************************)
(* Deliveries                                                              *)
(***************************************************************************)
Methods == {"POST", "GET"}

EventTypes == {"", "push", "pull_request", "star", InvalidUTF8}

Transfers == {[len |-> SmallLen, ioErr |-> FALSE], [len |-> maxBytes, ioErr |-> FALSE],
              [len |-> maxBytes + 1, ioErr |-> FALSE], [len |-> 2 * maxBytes, ioErr |-> FALSE],
              [len |-> SmallLen, ioErr |-> TRUE]}

OtherDoc(d) == Docs[(DocId(d) % Len(Docs)) + 1]

\* values of the X-Hub-Signature-256 header for a body: none, the bare
\* digest, the signature under either secret, the signature of another
\* body, and a string that is no digest
SigChoices(b) ==
    {<<>>, computeSignature(b, "s1"), signBody("s1", b), signBody("s2", b),
     signBody("s1", [doc |-> OtherDoc(b.doc), len |-> b.len]),
     prefix \o <<"b", "a", "d", "h", "a", "s", "h">>}

Requests ==
    UNION { { [method |-> m, len |-> tr.len, ioErr |-> tr.ioErr, doc |-> d,
               sig |-> sg, eventType |-> et] :
                sg \in SigChoices([doc |-> d, len |-> tr.len]) } :
              m \in Methods, tr \in Transfers, d \in {Docs[i] : i \in 1..Len(Docs)},
              et \in EventTypes }

NoRequest == [method |-> "", len |-> 0, ioErr |-> FALSE, doc |-> Malformed,
              sig |-> <<>>, eventType |-> ""]

\* http.Error(w, msg, code) and w.WriteHeader(code); w.Write(body)
Response(code, text) == [code |-> code, body |-> text]

Accepted == Response(200, "{\"status\":\"accepted\"}")

Ignored == Response(200, "{\"status\":\"ignored\"}")

(***************************************************************************)
(* handleWebhook, one action per check of the handler                      *)
(***************************************************************************)
\* the engine hands a request to the handler
Arrive ==
    /\ pc = "idle"
    /\ delivered < MaxDeliveries
    /\ \E r \in Requests : req' = r
    /\ pc' = "method"
    /\ delivered' = delivered + 1
    /\ body' = NoBody
    /\ eventType' = ""
    /\ event' = NoEvent
    /\ resp' = <<>>
    /\ steps' = <<>>
    /\ pubCalls' = <<>>
    /\ UNCHANGED <<config, publisher, nPublished, sigIn, sigOut, normIn, normOut, stepVars, resolveVars, parked>>

SetMessagePublisher ==
    /\ pc = "idle"
    /\ \E pub \in {"nil", "sink"} : publisher' = pub
    /\ UNCHANGED <<config, pc, req, body, eventType, event, resp, steps, pubCalls,
                   delivered, nPublished, sigIn, sigOut, normIn, normOut, stepVars, resolveVars, parked>>

\* CheckMethod without the return after http.Error
CheckMethod_NoReturn ==
    /\ pc = "method"
    /\ steps' = Append(steps, "method")
    /\ resp' = IF req.method # "POST"
               THEN Append(resp, Response(405, "method not allowed")) ELSE resp
    /\ pc' = "read"
    /\ UNCHANGED <<config, publisher, req, body, eventType, event, pubCalls,
                   delivered, nPublished, sigIn, sigOut, normIn, normOut, stepVars, resolveVars, parked>>

\* part_000:115-118
CheckMethod ==
    /\ pc = "method"
    /\ steps' = Append(steps, "method")
    /\ IF req.method # "POST"
       THEN /\ resp' = Append(resp, Response(405, "method not allowed"))
            /\ pc' = "done"
       ELSE /\ resp' = resp
            /\ pc' = "read"
    /\ UNCHANGED <<config, publisher, req, body, eventType, event, pubCalls,
                   delivered, nPublished, sigIn, sigOut, normIn, normOut, stepVars, resolveVars, parked>>

\* part_000:120-124
ReadBody ==
    /\ pc = "read"
    /\ steps' = Append(steps, "read")
    /\ LET rd == readLimitedBody(req, maxBytes)
       IN IF rd.err
          THEN /\ resp' = Append(resp, Response(400, "failed to read body"))
               /\ pc' = "done"
               /\ body' = body
          ELSE /\ resp' = resp
               /\ pc' = "signature"
               /\ body' = rd.buf
    /\ UNCHANGED <<config, publisher, req, eventType, event, pubCalls,
                   delivered, nPublished, sigIn, sigOut, normIn, normOut, stepVars, resolveVars, parked>>

\* CheckSignature validating only a header that is present
CheckSignature_SkipMissing ==
    /\ pc = "signature"
    /\ steps' = Append(steps, "signature")
    /\ IF config.Secret # "" /\ req.sig # <<>>
          /\ ~validateSignature(body, config.Secret, req.sig)
       THEN /\ resp' = Append(resp, Response(401, "invalid signature"))
            /\ pc' = "done"
       ELSE /\ resp' = resp
            /\ pc' = "event"
    /\ UNCHANGED <<config, publisher, req, body, eventType, event, pubCalls,
                   delivered, nPublished, sigIn, sigOut, normIn, normOut, stepVars, resolveVars, parked>>

\* CheckSignature validating whenever a header is sent, secret or not
CheckSignature_WhenHeaderPresent ==
    /\ pc = "signature"
    /\ steps' = Append(steps, "signature")
    /\ IF config.Secret # "" /\ req.sig = <<>>
       THEN /\ resp' = Append(resp, Response(401, "missing X-Hub-Signature-256 header"))
            /\ pc' = "done"
       ELSE IF req.sig # <<>> /\ ~validateSignature(body, config.Secret, req.sig)
       THEN /\ resp' = Append(resp, Response(401, "invalid signature"))
            /\ pc' = "done"
       ELSE /\ resp' = resp
            /\ pc' = "event"
    /\ UNCHANGED <<config, publisher, req, body, eventType, event, pubCalls,
                   delivered, nPublished, sigIn, sigOut, normIn, normOut, stepVars, resolveVars, parked>>

\* part_000:126-137
CheckSignature ==
    /\ pc = "signature"
    /\ steps' = Append(steps, "signature")
    /\ IF config.Secret # "" /\ req.sig = <<>>
       THEN /\ resp' = Append(resp, Response(401, "missing X-Hub-Signature-256 header"))
            /\ pc' = "done"
       ELSE IF config.Secret # "" /\ ~validateSignature(body, config.Secret, req.sig)
       THEN /\ resp' = Append(resp, Response(401, "invalid signature"))
            /\ pc' = "done"
       ELSE /\ resp' = resp
            /\ pc' = "event"
    /\ UNCHANGED <<config, publisher, req, body, eventType, event, pubCalls,
                   delivered, nPublished, sigIn, sigOut, normIn, normOut, stepVars, resolveVars, parked>>

\* part_000:139-143
CheckEventHeader ==
    /\ pc = "event"
    /\ steps' = Append(steps, "event")
    /\ eventType' = req.eventType
    /\ IF req.eventType = ""
       THEN /\ resp' = Append(resp, Response(400, "missing X-GitHub-Event header"))
            /\ pc' = "done"
       ELSE /\ resp' = resp
            /\ pc' = "filter"
    /\ UNCHANGED <<config, publisher, req, body, event, pubCalls,
                   delivered, nPublished, sigIn, sigOut, normIn, normOut, stepVars, resolveVars, parked>>

\* FilterEvents filtering only when the allow-list has more than one entry
FilterEvents_OffByOne ==
    /\ pc = "filter"
    /\ steps' = Append(steps, "filter")
    /\ IF Len(config.Events) > 1 /\ ~containsString(config.Events, eventType)
       THEN /\ resp' = Append(resp, Ignored)
            /\ pc' = "done"
       ELSE /\ resp' = resp
            /\ pc' = "normalize"
    /\ UNCHANGED <<config, publisher, req, body, eventType, event, pubCalls,
                   delivered, nPublished, sigIn, sigOut, normIn, normOut, stepVars, resolveVars, parked>>

\* part_000:145-150
FilterEvents ==
    /\ pc = "filter"
    /\ steps' = Append(steps, "filter")
    /\ IF Len(config.Events) > 0 /\ ~containsString(config.Events, eventType)
       THEN /\ resp' = Append(resp, Ignored)
            /\ pc' = "done"
       ELSE /\ resp' = resp
            /\ pc' = "normalize"
    /\ UNCHANGED <<config, publisher, req, body, eventType, event, pubCalls,
                   delivered, nPublished, sigIn, sigOut, normIn, normOut, stepVars, resolveVars, parked>>

\* part_000:152-156
Normalize ==
    /\ pc = "normalize"
    /\ steps' = Append(steps, "normalize")
    /\ LET n == normalizeGitHubEvent(eventType, body, delivered)
       IN /\ event' = n.event
          /\ IF n.err
             THEN /\ resp' = Append(resp, Response(400, "failed to normalize event"))
                  /\ pc' = "done"
             ELSE /\ resp' = resp
                  /\ pc' = "publish"
    /\ UNCHANGED <<config, publisher, req, body, eventType, pubCalls,
                   delivered, nPublished, sigIn, sigOut, normIn, normOut, stepVars, resolveVars, parked>>

\* m.publisher.Publish(topic, payload, metadata) as the handler calls it
PublishCall(ev, payload, failed) ==
    [topic |-> config.Topic, payload |-> payload,
     metadata |-> [event_type |-> ev.EventType, provider |-> ev.Provider,
                   repository |-> ev.Repository],
     err |-> failed]

\* Publish calling the sink a second time when the first call fails
Publish_Retry ==
    /\ pc = "publish"
    /\ steps' = Append(steps, "publish")
    /\ IF publisher = "nil"
       THEN /\ pc' = "accept"
            /\ UNCHANGED <<resp, pubCalls, nPublished>>
       ELSE LET m == jsonMarshal(event)
            IN IF m.err
               THEN /\ resp' = Append(resp, Response(500, "failed to marshal event"))
                    /\ pc' = "done"
                    /\ UNCHANGED <<pubCalls, nPublished>>
               ELSE \E failed \in BOOLEAN, failedAgain \in BOOLEAN :
                      /\ pubCalls' = IF failed
                                     THEN pubCalls \o <<PublishCall(event, m.json, TRUE),
                                                        PublishCall(event, m.json, failedAgain)>>
                                     ELSE Append(pubCalls, PublishCall(event, m.json, FALSE))
                      /\ nPublished' = nPublished + (IF failed THEN 2 ELSE 1)
                      /\ IF failed /\ failedAgain
                         THEN /\ resp' = Append(resp, Response(500, "failed to publish event"))
                              /\ pc' = "done"
                         ELSE /\ resp' = resp
                              /\ pc' = "accept"
    /\ UNCHANGED <<config, publisher, req, body, eventType, event,
                   delivered, sigIn, sigOut, normIn, normOut, stepVars, resolveVars, parked>>

\* Publish dropping the error of the sink
Publish_SwallowError ==
    /\ pc = "publish"
    /\ steps' = Append(steps, "publish")
    /\ IF publisher = "nil"
       THEN /\ pc' = "accept"
            /\ UNCHANGED <<resp, pubCalls, nPublished>>
       ELSE LET m == jsonMarshal(event)
            IN IF m.err
               THEN /\ resp' = Append(resp, Response(500, "failed to marshal event"))
                    /\ pc' = "done"
                    /\ UNCHANGED <<pubCalls, nPublished>>
               ELSE \E failed \in BOOLEAN :
                      /\ pubCalls' = Append(pubCalls, PublishCall(event, m.json, failed))
                      /\ nPublished' = nPublished + 1
                      /\ resp' = resp
                      /\ pc' = "accept"
    /\ UNCHANGED <<config, publisher, req, body, eventType, event,
                   delivered, sigIn, sigOut, normIn, normOut, stepVars, resolveVars, parked>>

\* part_000:158-173; whether the sink's Publish fails is up to the broker
Publish ==
    /\ pc = "publish"
    /\ steps' = Append(steps, "publish")
    /\ IF publisher = "nil"
       THEN /\ pc' = "accept"
            /\ UNCHANGED <<resp, pubCalls, nPublished>>
       ELSE LET m == jsonMarshal(event)
            IN IF m.err
               THEN /\ resp' = Append(resp, Response(500, "failed to marshal event"))
                    /\ pc' = "done"
                    /\ UNCHANGED <<pubCalls, nPublished>>
               ELSE \E failed \in BOOLEAN :
                      /\ pubCalls' = Append(pubCalls, PublishCall(event, m.json, failed))
                      /\ nPublished' = nPublished + 1
                      /\ IF failed
                         THEN /\ resp' = Append(resp, Response(500, "failed to publish event"))
                              /\ pc' = "done"
                         ELSE /\ resp' = resp
                              /\ pc' = "accept"
    /\ UNCHANGED <<config, publisher, req, body, eventType, event,
                   delivered, sigIn, sigOut, normIn, normOut, stepVars, resolveVars, parked>>

\* part_000:175-177
Accept ==
    /\ pc = "accept"
    /\ steps' = Append(steps, "accept")
    /\ resp' = Append(resp, Accepted)
    /\ pc' = "done"
    /\ UNCHANGED <<config, publisher, req, body, eventType, event, pubCalls,
                   delivered, nPublished, sigIn, sigOut, normIn, normOut, stepVars, resolveVars, parked>>

\* the handler returns; its locals and the request are gone
Return ==
    /\ pc = "done"
    /\ pc' = "idle"
    /\ req' = NoRequest
    /\ body' = NoBody
    /\ eventType' = ""
    /\ event' = NoEvent
    /\ resp' = <<>>
    /\ steps' = <<>>
    /\ pubCalls' = <<>>
    /\ UNCHANGED <<config, publisher, delivered, nPublished, sigIn, sigOut, normIn, normOut,
                   stepVars, resolveVars, parked>>

NoSigCall == [called |-> FALSE]

NoNormCall == [called |-> FALSE]

NoStep == [kind |-> "none"]

NoArgs == [nil |-> TRUE]

NoResult == [nil |-> TRUE]

\* the nil error
NilError == "nil"

NoDeadline == 0 - 1

NoTimer == 0 - 1

\* one goroutine only
NoParked == [nil |-> TRUE]

NoResolveCall == [called |-> FALSE]

\* resolveField is not called on its own
NoResolve == resolveIn = NoResolveCall /\ resolveOut = NoResolveCall

\* no step has been constructed and Execute is not running
NoExecution ==
    /\ step = NoStep
    /\ args = NoArgs
    /\ stPc = "idle"
    /\ clock = 0
    /\ deadline = NoDeadline
    /\ ctxDone = FALSE
    /\ cancelledDuring = "never"
    /\ timer = NoTimer
    /\ elapsed = FALSE
    /\ calls = <<>>
    /\ waits = 0
    /\ result = NoResult
    /\ execErr = NilError

\* newWebhookModule: the parsed config, no publisher yet
Init ==
    /\ \E raw \in RawConfigs : config = parseWebhookConfig(raw)
    /\ publisher = "nil"
    /\ pc = "idle"
    /\ req = NoRequest
    /\ body = NoBody
    /\ eventType = ""
    /\ event = NoEvent
    /\ resp = <<>>
    /\ steps = <<>>
    /\ pubCalls = <<>>
    /\ delivered = 0
    /\ nPublished = 0
    /\ sigIn = NoSigCall
    /\ sigOut = NoSigCall
    /\ normIn = NoNormCall
    /\ normOut = NoNormCall
    /\ NoExecution
    /\ NoResolve
    /\ parked = NoParked

Next ==
    \/ Arrive
    \/ SetMessagePublisher
    \/ CheckMethod
    \/ ReadBody
    \/ CheckSignature
    \/ CheckEventHeader
    \/ FilterEvents
    \/ Normalize
    \/ Publish
    \/ Accept
    \/ Return

Spec == Init /\ [][Next]_vars

(***************************************************************************)
(* validateSignature called directly, on every body, secret and header     *)
(***************************************************************************)
Bodies == {[doc |-> Docs[i], len |-> BodyLens[j]] : i \in 1..Len(Docs), j \in 1..Len(BodyLens)}

SecretSet == {Secrets[i] : i \in 1..Len(Secrets)}

\* header values beyond SigChoices: signed with the empty secret, the
\* prefix alone, the prefix without "=", another algorithm's prefix, the
\* prefix in upper case, a digest with a trailing character
SigInputs(b) ==
    SigChoices(b) \cup
    {signBody("", b), prefix, <<"s", "h", "a", "2", "5", "6">>,
     <<"s", "h", "a", "1", "=">> \o computeSignature(b, "s1"),
     <<"S", "H", "A", "2", "5", "6", "=">> \o computeSignature(b, "s1"),
     signBody("s1", b) \o <<"0">>}

InitSig ==
    /\ config = parseWebhookConfig(EmptyMap)
    /\ publisher = "nil"
    /\ pc = "idle"
    /\ req = NoRequest
    /\ body = NoBody
    /\ eventType = ""
    /\ event = NoEvent
    /\ resp = <<>>
    /\ steps = <<>>
    /\ pubCalls = <<>>
    /\ delivered = 0
    /\ nPublished = 0
    /\ \E b \in Bodies, s \in SecretSet :
         \E sg \in SigInputs(b) :
            sigIn = [called |-> TRUE, body |-> b, secret |-> s, sig |-> sg]
    /\ sigOut = NoSigCall
    /\ normIn = NoNormCall
    /\ normOut = NoNormCall
    /\ NoExecution
    /\ NoResolve
    /\ parked = NoParked

ValidateSignatureCall ==
    /\ sigIn.called
    /\ ~sigOut.called
    /\ sigOut' = [called |-> TRUE,
                  ok |-> validateSignature(sigIn.body, sigIn.secret, sigIn.sig)]
    /\ UNCHANGED <<webhookVars, sigIn, normIn, normOut, stepVars, resolveVars, parked>>

NextSig == ValidateSignatureCall

SpecSig == InitSig /\ [][NextSig]_vars

(***************************************************************************)
(* normalizeGitHubEvent called directly, on payloads in which every        *)
(* top-level field is absent, of the wrong type, or present                *)
(***************************************************************************)
FieldVariants ==
    [repository |-> {Absent, Str("owner/repo"),
                     Obj([full_name |-> Str("owner/repo")]),
                     Obj([full_name |-> Num])},
     ref |-> {Absent, Num, Str("refs/heads/main")},
     head_commit |-> {Absent, Str("abc123"),
                      Obj([id |-> Str("abc123"), message |-> Str("fix bug"),
                           url |-> Str("https://github.com"),
                           author |-> Obj([username |-> Str("alice"),
                                           name |-> Str("Alice")])]),
                      Obj([id |-> Num, author |-> Str("alice")])},
     after |-> {Absent, Str("deadbeef")},
     pusher |-> {Absent, Obj([name |-> Str("bob")])},
     sender |-> {Absent, Num, Obj([login |-> Str("carol")])},
     pull_request |-> {Absent, Str("PR"),
                       Obj([title |-> Str("Add feature"),
                            html_url |-> Str("https://github.com/pr/1"),
                            head |-> Obj([ref |-> Str("feature/xyz"),
                                          sha |-> Str("cafe")]),
                            user |-> Obj([login |-> Str("dave")])]),
                       Obj([title |-> Num, head |-> Num, user |-> Str("dave")])},
     release |-> {Absent,
                  Obj([tag_name |-> Str("v1.0.0"),
                       html_url |-> Str("https://github.com/rel/1"),
                       author |-> Obj([login |-> Str("erin")])]),
                  Obj([tag_name |-> Num, author |-> Num])}]

Payloads ==
    { Present(a, Absent) :
        a \in [repository : FieldVariants.repository, ref : FieldVariants.ref,
               head_commit : FieldVariants.head_commit, after : FieldVariants.after,
               pusher : FieldVariants.pusher, sender : FieldVariants.sender,
               pull_request : FieldVariants.pull_request,
               release : FieldVariants.release] }

NormDocs == {Malformed, Scalar, Null} \cup {Object(p) : p \in Payloads}

NormEventTypes == {"push", "pull_request", "release", "create", "delete", "star", ""}

InitNorm ==
    /\ config = parseWebhookConfig(EmptyMap)
    /\ publisher = "nil"
    /\ pc = "idle"
    /\ req = NoRequest
    /\ body = NoBody
    /\ eventType = ""
    /\ event = NoEvent
    /\ resp = <<>>
    /\ steps = <<>>
    /\ pubCalls = <<>>
    /\ delivered = 0
    /\ nPublished = 0
    /\ sigIn = NoSigCall
    /\ sigOut = NoSigCall
    /\ \E d \in NormDocs, et \in NormEventTypes :
         normIn = [called |-> TRUE, eventType |-> et, body |-> [doc |-> d, len |-> SmallLen]]
    /\ normOut = NoNormCall
    /\ NoExecution
    /\ NoResolve
    /\ parked = NoParked

NormalizeCall ==
    /\ normIn.called
    /\ ~normOut.called
    /\ LET n == normalizeGitHubEvent(normIn.eventType, normIn.body, 1)
       IN normOut' = [called |-> TRUE, err |-> n.err, event |-> n.event]
    /\ UNCHANGED <<webhookVars, sigIn, sigOut, normIn, stepVars, resolveVars, parked>>

NextNorm == NormalizeCall

SpecNorm == InitNorm /\ [][NextNorm]_vars

(***************************************************************************)
(* normalizeGitHubEvent called directly on push, create and delete         *)
(* payloads that vary the ref and the four sources of the author           *)
(***************************************************************************)
RefVariants ==
    {Absent, Num} \cup
    {Str(r) : r \in {"", "refs/heads/main", "refs/heads/", "refs/heads", "refs/tags/v1",
                     "v2.0.0", "refs/heads/x", "refs/heads/refs/heads/x",
                     "x/refs/heads/y"}}

AuthorVariants ==
    {Absent, Num} \cup
    {Obj(Present([username |-> u, name |-> n], Absent)) :
        u \in {Absent, Num, Str(""), Str("alice")},
        n \in {Absent, Str(""), Str("Alice")}}

HeadCommitVariants ==
    {Absent, Str("abc123")} \cup
    {Obj(Present([id |-> Str("abc123"), author |-> a], Absent)) : a \in AuthorVariants}

PusherVariants ==
    {Absent, Num, Obj([name |-> Num]), Obj([name |-> Str("")]), Obj([name |-> Str("bob")])}

SenderVariants ==
    {Absent, Num, Obj([login |-> Str("")]), Obj([login |-> Str("carol")])}

RefPayloads ==
    { Present(a, Absent) :
        a \in [ref : RefVariants, head_commit : HeadCommitVariants,
               pusher : PusherVariants, sender : SenderVariants] }

RefEventTypes == {"push", "create", "delete"}

InitRef ==
    /\ config = parseWebhookConfig(EmptyMap)
    /\ publisher = "nil"
    /\ pc = "idle"
    /\ req = NoRequest
    /\ body = NoBody
    /\ eventType = ""
    /\ event = NoEvent
    /\ resp = <<>>
    /\ steps = <<>>
    /\ pubCalls = <<>>
    /\ delivered = 0
    /\ nPublished = 0
    /\ sigIn = NoSigCall
    /\ sigOut = NoSigCall
    /\ \E f \in RefPayloads, et \in RefEventTypes :
         normIn = [called |-> TRUE, eventType |-> et,
                   body |-> [doc |-> Object(f), len |-> SmallLen]]
    /\ normOut = NoNormCall
    /\ NoExecution
    /\ NoResolve
    /\ parked = NoParked

SpecRef == InitRef /\ [][NextNorm]_vars

(***************************************************************************)
(* The workflow steps.  One behaviour is one call of Execute on one step;  *)
(* the caller may cancel the context at any moment, time passes between    *)
(* the steps of the goroutine, and a call of the GitHub client takes time. *)
(***************************************************************************)
MaxTimeout == 2

MaxInterval == 1

\* the clock stops past every deadline and every timer of the model
MaxTime == MaxTimeout + MaxInterval + 1

IntVal(n) == [t |-> "int", n |-> n]

\* fmt.Sprintf(`{"error":%q}`, msg)
ErrorBody(msg) == [t |-> "str", json |-> [error |-> msg]]

\* errorResult: a StepResult that stops the pipeline.  A message is the
\* tuple of its format string and the arguments.
errorResult(msg) ==
    [StopPipeline |-> TRUE,
     Output |-> [response_status |-> IntVal(500),
                 response_body |-> ErrorBody(msg),
                 response_headers |-> Obj([ContentType |-> Str("application/json")]),
                 error |-> [t |-> "str", s |-> msg]]]

MissingToken == <<"GITHUB_TOKEN is not configured">>

TimeoutMessage(runID, timeout) ==
    <<"timeout waiting for workflow run %d after %s", runID, timeout>>

CancelledMessage == <<"context cancelled while waiting for workflow run">>

FetchFailed(err) == <<"failed to get workflow run: %v", err>>

\* what the GitHub API reports for the run
Runs ==
    {[ID |-> 7, Status |-> "in_progress", Conclusion |-> "",
      HTMLURL |-> "https://github.com/runs/7"],
     [ID |-> 7, Status |-> "completed", Conclusion |-> "success",
      HTMLURL |-> "https://github.com/runs/7"],
     [ID |-> 7, Status |-> "completed", Conclusion |-> "failure",
      HTMLURL |-> "https://github.com/runs/7"]}

\* what GetWorkflowRun returns: (nil, err) or (run, nil)
RunOutcomes ==
    {[err |-> TRUE, msg |-> "get workflow run: unexpected status 502"]} \cup
    {[err |-> FALSE, run |-> r] : r \in Runs}

\* fetchStatus after GetWorkflowRun returned r; its error is always nil
fetchStatus(r) ==
    IF r.err THEN errorResult(FetchFailed(r.msg))
    ELSE [StopPipeline |-> FALSE,
          Output |-> [run_id |-> IntVal(r.run.ID), status |-> Str(r.run.Status),
                      conclusion |-> Str(r.run.Conclusion),
                      url |-> Str(r.run.HTMLURL)]]

\* fetchStatus handing the client's error to its caller
fetchStatusError_Propagate(r) == IF r.err THEN r.msg ELSE NilError

\* the error fetchStatus returns beside its result: nil on both paths
fetchStatusError(r) == NilError

\* isTerminalStatus also treating a run in progress as finished
isTerminalStatus_InProgress(status) == status \in {"completed", "in_progress"}

isTerminalStatus(status) == status = "completed"

\* the configs parseActionStatusConfig produces: durations are not checked
\* for being positive
StatusConfigs ==
    {[Owner |-> "GoCodeAlone", Repo |-> "workflow", RunID |-> 7, Token |-> tk,
      Wait |-> w, PollInterval |-> p, Timeout |-> t] :
        tk \in {"", "ghp_token"}, w \in BOOLEAN,
        p \in 0..MaxInterval, t \in 0..MaxTimeout}

\* the webhook module takes no part in a step's execution
WebhookIdle ==
    /\ config = parseWebhookConfig(EmptyMap)
    /\ publisher = "nil"
    /\ pc = "idle"
    /\ req = NoRequest
    /\ body = NoBody
    /\ eventType = ""
    /\ event = NoEvent
    /\ resp = <<>>
    /\ steps = <<>>
    /\ pubCalls = <<>>
    /\ delivered = 0
    /\ nPublished = 0
    /\ sigIn = NoSigCall
    /\ sigOut = NoSigCall
    /\ normIn = NoNormCall
    /\ normOut = NoNormCall

otherVars == <<webhookVars, sigIn, sigOut, normIn, normOut, resolveVars, parked>>

(***************************************************************************)
(* resolveField and lookupRef, on strings given as character sequences     *)
(***************************************************************************)
\* loop iterations of resolveField after which a call counts as not
\* returning; more than any value of the model needs when it terminates
MaxResolve == 3

\* strings.Index, counting from 1: 0 when sub does not occur (Go: -1)
Index(s, sub) ==
    LET hits == {i \in 1..(Len(s) - Len(sub) + 1) : SubSeq(s, i, i + Len(sub) - 1) = sub}
    IN IF hits = {} THEN 0 ELSE CHOOSE i \in hits : \A j \in hits : i <= j

\* strings.Contains
Contains(s, sub) == Index(s, sub) # 0

\* strings.TrimSpace
TrimSpace(s) ==
    LET ns == {i \in 1..Len(s) : s[i] # " "}
    IN IF ns = {} THEN <<>>
       ELSE SubSeq(s, CHOOSE i \in ns : \A j \in ns : i <= j,
                      CHOOSE i \in ns : \A j \in ns : i >= j)

\* strings.Replace(s, old, new, 1)
Replace1(s, old, new) ==
    LET i == Index(s, old)
    IN IF i = 0 THEN s
       ELSE SubSeq(s, 1, i - 1) \o new \o SubSeq(s, i + Len(old), Len(s))

RECURSIVE SplitN(_, _)
\* strings.SplitN(s, ".", n) for n > 0
SplitN(s, n) ==
    LET i == Index(s, <<".">>)
    IN IF n = 1 \/ i = 0 THEN <<s>>
       ELSE <<SubSeq(s, 1, i - 1)>> \o SplitN(SubSeq(s, i + 1, Len(s)), n - 1)

RECURSIVE Join(_)
\* strings.Join(parts, ".")
Join(parts) ==
    IF Len(parts) = 0 THEN <<>>
    ELSE IF Len(parts) = 1 THEN parts[1]
    ELSE parts[1] \o <<".">> \o Join(Tail(parts))

\* v, ok := m[k]; a nil map has no keys
MapLookup(m, k) ==
    IF k \in DOMAIN m THEN [ok |-> TRUE, v |-> m[k]] ELSE [ok |-> FALSE, v |-> <<>>]

lookupRef(ref, triggerData, stepOutputs, current) ==
    LET parts == SplitN(TrimPrefix(ref, <<".">>), 3)
    IN CASE parts[1] = Chars("steps") ->
              IF Len(parts) < 3 \/ parts[2] \notin DOMAIN stepOutputs
              THEN [ok |-> FALSE, v |-> <<>>]
              ELSE MapLookup(stepOutputs[parts[2]], parts[3])
         [] parts[1] = Chars("current") ->
              IF Len(parts) < 2 THEN [ok |-> FALSE, v |-> <<>>]
              ELSE MapLookup(current, Join(Tail(parts)))
         [] OTHER -> MapLookup(triggerData, Join(parts))

RECURSIVE resolveLoop(_, _, _, _, _)
\* the for loop of resolveField with n iterations left; done is FALSE when
\* the loop is still replacing after MaxResolve iterations
resolveLoop(res, triggerData, stepOutputs, current, n) ==
    IF ~Contains(res, Chars("{{")) THEN [done |-> TRUE, value |-> res]
    ELSE LET start == Index(res, Chars("{{"))
             end == Index(res, Chars("}}"))
             placeholder == SubSeq(res, start, end + 1)
             inner == TrimSpace(SubSeq(res, start + 2, end - 1))
             resolved == lookupRef(inner, triggerData, stepOutputs, current)
         IN IF end < start THEN [done |-> TRUE, value |-> res]
            ELSE IF ~resolved.ok THEN [done |-> TRUE, value |-> res]
            ELSE IF n = 0 THEN [done |-> FALSE, value |-> res]
            ELSE resolveLoop(Replace1(res, placeholder, resolved.v),
                             triggerData, stepOutputs, current, n - 1)

\* every value of the model's data is a string, which %v prints as it is
resolveField(value, triggerData, stepOutputs, current) ==
    IF ~Contains(value, Chars("{{")) THEN [done |-> TRUE, value |-> value]
    ELSE resolveLoop(value, triggerData, stepOutputs, current, MaxResolve)

\* resolveField on the arguments of this Execute call
Resolve(value) == resolveField(value, args.triggerData, args.stepOutputs, args.current)

(***************************************************************************)
(* resolveField called on its own, one loop iteration per step             *)
(***************************************************************************)
\* pieces a configured value is put together from
MaxPieces == 2

Pieces ==
    {Chars("{{.owner}}"), Chars("{{ .commit }}"), Chars("{{.steps.prev.ref}}"),
     Chars("{{.current.env}}"), Chars("{{.missing}}"), Chars("app"),
     Chars("{{"), Chars("}}")}

RECURSIVE Concat(_)
Concat(seqs) == IF seqs = <<>> THEN <<>> ELSE seqs[1] \o Concat(Tail(seqs))

ResolveValues == {Concat(ps) : ps \in UNION {[1..n -> Pieces] : n \in 0..MaxPieces}}

\* trigger data: none, plain values, a field holding a placeholder for
\* itself, a field holding a placeholder for another field
ResolveTriggerData ==
    {EmptyMap,
     (Chars("owner") :> Chars("acme")) @@ (Chars("commit") :> Chars("abc123")),
     (Chars("owner") :> Chars("{{.owner}}")),
     (Chars("owner") :> Chars("{{ .commit }}")) @@ (Chars("commit") :> Chars("abc123"))}

ResolveCalls ==
    {[called |-> TRUE, value |-> v, triggerData |-> td, stepOutputs |-> so,
      current |-> cur] :
        v \in ResolveValues, td \in ResolveTriggerData,
        so \in {EmptyMap, (Chars("prev") :> (Chars("ref") :> Chars("dev")))},
        cur \in {EmptyMap, (Chars("env") :> Chars("staging"))}}

InitResolve ==
    /\ WebhookIdle
    /\ NoExecution
    /\ parked = NoParked
    /\ resolveIn \in ResolveCalls
    /\ resolveOut = [pc |-> "entry", result |-> <<>>, iterations |-> 0]

\* resolveField up to its loop: a value without "{{" is returned as it is
ResolveFieldCall ==
    /\ resolveIn.called /\ resolveOut.pc = "entry"
    /\ resolveOut' =
         IF ~Contains(resolveIn.value, Chars("{{"))
         THEN [pc |-> "returned", result |-> resolveIn.value, iterations |-> 0]
         ELSE [pc |-> "loop", result |-> resolveIn.value, iterations |-> 0]
    /\ UNCHANGED <<webhookVars, sigIn, sigOut, normIn, normOut, stepVars, resolveIn, parked>>

\* one iteration of the loop: the loop condition, the two Index calls, the
\* break when "}}" does not follow, the lookup, and the replacement or the
\* break.  The count of iterations stops at MaxResolve.
ResolveIterate ==
    /\ resolveIn.called /\ resolveOut.pc = "loop"
    /\ LET res == resolveOut.result
           start == Index(res, Chars("{{"))
           end == Index(res, Chars("}}"))
           placeholder == SubSeq(res, start, end + 1)
           inner == TrimSpace(SubSeq(res, start + 2, end - 1))
           resolved == lookupRef(inner, resolveIn.triggerData, resolveIn.stepOutputs,
                                 resolveIn.current)
       IN resolveOut' =
            IF ~Contains(res, Chars("{{")) THEN [resolveOut EXCEPT !.pc = "returned"]
            ELSE IF end < start THEN [resolveOut EXCEPT !.pc = "returned"]
            ELSE IF resolved.ok
            THEN [pc |-> "loop",
                  result |-> Replace1(res, placeholder, resolved.v),
                  iterations |-> Min(resolveOut.iterations + 1, MaxResolve)]
            ELSE [resolveOut EXCEPT !.pc = "returned"]
    /\ UNCHANGED <<webhookVars, sigIn, sigOut, normIn, normOut, stepVars, resolveIn, parked>>

NextResolve ==
    \/ ResolveFieldCall
    \/ ResolveIterate

SpecResolve == InitResolve /\ [][NextResolve]_vars

(***************************************************************************)
(* The trigger step and the check step                                     *)
(***************************************************************************)
TriggerFailed(err) == <<"failed to trigger workflow: %v", err>>

CheckFailed(err) == <<"failed to create check run: %v", err>>

BoolVal(b) == [t |-> "bool", b |-> b]

\* configs parseActionTriggerConfig produces
TriggerConfigs ==
    {[Owner |-> o, Repo |-> Chars("app"), Workflow |-> Chars("ci.yml"), Ref |-> r,
      Inputs |-> i, Token |-> tk] :
        o \in {Chars("acme"), Chars("{{.owner}}")},
        r \in {Chars("main"), Chars("{{.steps.prev.ref}}")},
        i \in {EmptyMap, [environment |-> Chars("{{.current.env}}")]},
        tk \in {"", "ghp_token"}}

\* configs parseCreateCheckConfig produces
CheckConfigs ==
    {[Owner |-> o, Repo |-> Chars("app"), SHA |-> sha, Name |-> "build",
      Status |-> sc[1], Conclusion |-> sc[2], Title |-> ts[1], Summary |-> ts[2],
      Token |-> tk] :
        o \in {Chars("acme"), Chars("{{.owner}}")},
        sha \in {Chars("abc123"), Chars("{{ .commit }}")},
        sc \in {<<"queued", "">>, <<"completed", "success">>},
        ts \in {<<"", "">>, <<"CI Pipeline", "All tests passed">>},
        tk \in {"", "ghp_token"}}

\* what the pipeline engine passes to Execute; the third triggerData maps
\* a field to a placeholder for itself
ArgSets ==
    {[triggerData |-> td, stepOutputs |-> so, current |-> cur] :
        td \in {EmptyMap,
                (Chars("owner") :> Chars("acme")) @@ (Chars("commit") :> Chars("abc123")),
                (Chars("owner") :> Chars("{{.owner}}"))},
        so \in {EmptyMap, (Chars("prev") :> (Chars("ref") :> Chars("dev")))},
        cur \in {EmptyMap, (Chars("env") :> Chars("staging"))}}

NoArgsGiven == [triggerData |-> EmptyMap, stepOutputs |-> EmptyMap, current |-> EmptyMap]

\* what TriggerWorkflow returns
TriggerOutcomes ==
    {[err |-> TRUE, msg |-> "trigger workflow: unexpected status 422"], [err |-> FALSE]}

\* what CreateCheckRun returns for a request
CheckOutcomes(r) ==
    {[err |-> TRUE, msg |-> "create check run: unexpected status 422"],
     [err |-> FALSE,
      check |-> [ID |-> 99, HTMLURL |-> "https://github.com/checks/99",
                 Status |-> r.Status]]}

\* actionTriggerStep.Execute without the token check
TriggerExecute_NoTokenCheck ==
    /\ step.kind = "trigger" /\ stPc = "idle"
    /\ LET owner == Resolve(step.config.Owner)
           repo == Resolve(step.config.Repo)
           workflow == Resolve(step.config.Workflow)
           ref == Resolve(step.config.Ref)
           inputs == [k \in DOMAIN step.config.Inputs |-> Resolve(step.config.Inputs[k])]
       IN IF FALSE
          THEN /\ result' = errorResult(MissingToken)
               /\ stPc' = "done"
               /\ execErr' = NilError
               /\ UNCHANGED calls
          ELSE IF ~(/\ owner.done /\ repo.done /\ workflow.done /\ ref.done
                    /\ \A k \in DOMAIN inputs : inputs[k].done)
          THEN /\ stPc' = "resolving"
               /\ UNCHANGED <<calls, result, execErr>>
          ELSE \E r \in TriggerOutcomes :
                 /\ calls' = Append(calls,
                        [op |-> "TriggerWorkflow", afterCancel |-> ctxDone,
                         afterDeadline |-> FALSE, returned |-> TRUE, out |-> r,
                         owner |-> owner.value, repo |-> repo.value,
                         workflow |-> workflow.value, ref |-> ref.value,
                         inputs |-> [k \in DOMAIN inputs |-> inputs[k].value],
                         token |-> step.config.Token])
                 /\ result' =
                      IF r.err THEN errorResult(TriggerFailed(r.msg))
                      ELSE [StopPipeline |-> FALSE,
                            Output |-> [triggered |-> BoolVal(TRUE),
                                        owner |-> Str(owner.value),
                                        repo |-> Str(repo.value),
                                        workflow |-> Str(workflow.value),
                                        ref |-> Str(ref.value)]]
                 /\ stPc' = "done"
                 /\ execErr' = NilError
    /\ UNCHANGED <<otherVars, step, args, clock, deadline, ctxDone, cancelledDuring, timer,
                   elapsed, waits>>

\* actionTriggerStep.Execute: the token check, resolveField on owner, repo,
\* workflow, ref and every input, one TriggerWorkflow call, the result.
\* A resolveField that does not return leaves Execute in "resolving".
TriggerExecute ==
    /\ step.kind = "trigger" /\ stPc = "idle"
    /\ LET owner == Resolve(step.config.Owner)
           repo == Resolve(step.config.Repo)
           workflow == Resolve(step.config.Workflow)
           ref == Resolve(step.config.Ref)
           inputs == [k \in DOMAIN step.config.Inputs |-> Resolve(step.config.Inputs[k])]
       IN IF step.config.Token = ""
          THEN /\ result' = errorResult(MissingToken)
               /\ stPc' = "done"
               /\ execErr' = NilError
               /\ UNCHANGED calls
          ELSE IF ~(/\ owner.done /\ repo.done /\ workflow.done /\ ref.done
                    /\ \A k \in DOMAIN inputs : inputs[k].done)
          THEN /\ stPc' = "resolving"
               /\ UNCHANGED <<calls, result, execErr>>
          ELSE \E r \in TriggerOutcomes :
                 /\ calls' = Append(calls,
                        [op |-> "TriggerWorkflow", afterCancel |-> ctxDone,
                         afterDeadline |-> FALSE, returned |-> TRUE, out |-> r,
                         owner |-> owner.value, repo |-> repo.value,
                         workflow |-> workflow.value, ref |-> ref.value,
                         inputs |-> [k \in DOMAIN inputs |-> inputs[k].value],
                         token |-> step.config.Token])
                 /\ result' =
                      IF r.err THEN errorResult(TriggerFailed(r.msg))
                      ELSE [StopPipeline |-> FALSE,
                            Output |-> [triggered |-> BoolVal(TRUE),
                                        owner |-> Str(owner.value),
                                        repo |-> Str(repo.value),
                                        workflow |-> Str(workflow.value),
                                        ref |-> Str(ref.value)]]
                 /\ stPc' = "done"
                 /\ execErr' = NilError
    /\ UNCHANGED <<otherVars, step, args, clock, deadline, ctxDone, cancelledDuring, timer,
                   elapsed, waits>>

\* createCheckStep.Execute: the token check, resolveField on owner, repo and
\* sha, the request (Output only with a title or a summary), one
\* CreateCheckRun call, the result
CheckExecute ==
    /\ step.kind = "check" /\ stPc = "idle"
    /\ LET owner == Resolve(step.config.Owner)
           repo == Resolve(step.config.Repo)
           sha == Resolve(step.config.SHA)
           request == [Name |-> step.config.Name, HeadSHA |-> sha.value,
                       Status |-> step.config.Status,
                       Conclusion |-> step.config.Conclusion,
                       Output |-> IF step.config.Title # "" \/ step.config.Summary # ""
                                  THEN [nil |-> FALSE, Title |-> step.config.Title,
                                        Summary |-> step.config.Summary]
                                  ELSE [nil |-> TRUE]]
       IN IF step.config.Token = ""
          THEN /\ result' = errorResult(MissingToken)
               /\ stPc' = "done"
               /\ execErr' = NilError
               /\ UNCHANGED calls
          ELSE IF ~(owner.done /\ repo.done /\ sha.done)
          THEN /\ stPc' = "resolving"
               /\ UNCHANGED <<calls, result, execErr>>
          ELSE \E r \in CheckOutcomes(request) :
                 /\ calls' = Append(calls,
                        [op |-> "CreateCheckRun", afterCancel |-> ctxDone,
                         afterDeadline |-> FALSE, returned |-> TRUE, out |-> r,
                         owner |-> owner.value, repo |-> repo.value,
                         req |-> request, token |-> step.config.Token])
                 /\ result' =
                      IF r.err THEN errorResult(CheckFailed(r.msg))
                      ELSE [StopPipeline |-> FALSE,
                            Output |-> [check_run_id |-> IntVal(r.check.ID),
                                        status |-> Str(r.check.Status),
                                        url |-> Str(r.check.HTMLURL)]]
                 /\ stPc' = "done"
                 /\ execErr' = NilError
    /\ UNCHANGED <<otherVars, step, args, clock, deadline, ctxDone, cancelledDuring, timer,
                   elapsed, waits>>

InitSteps ==
    /\ WebhookIdle
    /\ NoResolve
    /\ parked = NoParked
    /\ \/ \E c \in StatusConfigs :
            step = [kind |-> "status", config |-> c] /\ args = NoArgsGiven
       \/ \E c \in TriggerConfigs, a \in ArgSets :
            step = [kind |-> "trigger", config |-> c] /\ args = a
       \/ \E c \in CheckConfigs, a \in ArgSets :
            step = [kind |-> "check", config |-> c] /\ args = a
    /\ stPc = "idle"
    /\ clock = 0
    /\ deadline = NoDeadline
    /\ ctxDone = FALSE
    /\ cancelledDuring = "never"
    /\ timer = NoTimer
    /\ elapsed = FALSE
    /\ calls = <<>>
    /\ waits = 0
    /\ result = NoResult
    /\ execErr = NilError

\* actionStatusStep.Execute up to its first call of fetchStatus: the token
\* check and, with wait, deadline := time.Now().Add(Timeout)
StatusExecute ==
    /\ step.kind = "status" /\ stPc = "idle"
    /\ IF step.config.Token = ""
       THEN /\ result' = errorResult(MissingToken)
            /\ stPc' = "done"
            /\ execErr' = NilError
            /\ UNCHANGED deadline
       ELSE /\ stPc' = "loop"
            /\ deadline' = IF step.config.Wait THEN clock + step.config.Timeout
                           ELSE deadline
            /\ UNCHANGED <<result, execErr>>
    /\ UNCHANGED <<otherVars, step, args, clock, ctxDone, cancelledDuring, timer, elapsed,
                   calls, waits>>

\* fetchStatus calls s.ghClient.GetWorkflowRun(ctx, ...): the single fetch
\* without wait, or the top of the polling loop
GetWorkflowRunCall ==
    /\ step.kind = "status" /\ stPc = "loop"
    /\ calls' = Append(calls, [op |-> "GetWorkflowRun",
                               runID |-> step.config.RunID,
                               afterCancel |-> ctxDone,
                               afterDeadline |-> step.config.Wait /\ clock > deadline,
                               returned |-> FALSE,
                               out |-> [err |-> FALSE]])
    /\ elapsed' = FALSE
    /\ stPc' = "fetching"
    /\ UNCHANGED <<otherVars, step, args, clock, deadline, ctxDone, cancelledDuring, timer,
                   waits, result, execErr>>

\* Execute checking the deadline before the status of the fetch
FetchStatusReturn_DeadlineFirst ==
    /\ step.kind = "status" /\ stPc = "fetching" /\ elapsed
    /\ \E r \in RunOutcomes :
         LET res == fetchStatus(r)
             status == StringAt(res.Output, "status")
         IN /\ calls' = [calls EXCEPT ![Len(calls)].returned = TRUE,
                                      ![Len(calls)].out = r]
            /\ IF ~step.config.Wait
               THEN /\ result' = res
                    /\ execErr' = fetchStatusError(r)
                    /\ stPc' = "done"
                    /\ UNCHANGED <<timer, waits>>
               ELSE IF fetchStatusError(r) # NilError
               THEN /\ result' = NoResult
                    /\ execErr' = fetchStatusError(r)
                    /\ stPc' = "done"
                    /\ UNCHANGED <<timer, waits>>
               ELSE IF clock > deadline
               THEN /\ result' = errorResult(TimeoutMessage(step.config.RunID,
                                                            step.config.Timeout))
                    /\ stPc' = "done"
                    /\ execErr' = NilError
                    /\ UNCHANGED <<timer, waits>>
               ELSE IF isTerminalStatus(status)
               THEN /\ result' = res
                    /\ stPc' = "done"
                    /\ execErr' = NilError
                    /\ UNCHANGED <<timer, waits>>
               ELSE /\ timer' = clock + step.config.PollInterval
                    /\ UNCHANGED <<result, execErr>>
                    /\ IF ctxDone
                       THEN \/ /\ stPc' = "wokenByDone"
                               /\ UNCHANGED waits
                            \/ /\ step.config.PollInterval = 0
                               /\ stPc' = "loop"
                               /\ waits' = waits + 1
                       ELSE /\ stPc' = "select"
                            /\ UNCHANGED waits
    /\ UNCHANGED <<otherVars, step, args, clock, deadline, ctxDone, cancelledDuring, elapsed>>

\* Execute entering the polling loop although wait is not set
FetchStatusReturn_PollWithoutWait ==
    /\ step.kind = "status" /\ stPc = "fetching" /\ elapsed
    /\ \E r \in RunOutcomes :
         LET res == fetchStatus(r)
             status == StringAt(res.Output, "status")
         IN /\ calls' = [calls EXCEPT ![Len(calls)].returned = TRUE,
                                      ![Len(calls)].out = r]
            /\ IF fetchStatusError(r) # NilError
               THEN /\ result' = NoResult
                    /\ execErr' = fetchStatusError(r)
                    /\ stPc' = "done"
                    /\ UNCHANGED <<timer, waits>>
               ELSE IF isTerminalStatus(status)
               THEN /\ result' = res
                    /\ stPc' = "done"
                    /\ execErr' = NilError
                    /\ UNCHANGED <<timer, waits>>
               ELSE IF clock > deadline
               THEN /\ result' = errorResult(TimeoutMessage(step.config.RunID,
                                                            step.config.Timeout))
                    /\ stPc' = "done"
                    /\ execErr' = NilError
                    /\ UNCHANGED <<timer, waits>>
               ELSE /\ timer' = clock + step.config.PollInterval
                    /\ UNCHANGED <<result, execErr>>
                    /\ IF ctxDone
                       THEN \/ /\ stPc' = "wokenByDone"
                               /\ UNCHANGED waits
                            \/ /\ step.config.PollInterval = 0
                               /\ stPc' = "loop"
                               /\ waits' = waits + 1
                       ELSE /\ stPc' = "select"
                            /\ UNCHANGED waits
    /\ UNCHANGED <<otherVars, step, args, clock, deadline, ctxDone, cancelledDuring, elapsed>>

\* GetWorkflowRun returns after some time and Execute runs on to its next
\* suspension: without wait it returns what fetchStatus returned; with wait
\* it returns fetchStatus's error if there is one, the result when the
\* status is terminal, returns the timeout result when
\* the deadline has passed, and otherwise enters the select.  A context
\* already cancelled is ready at once; a timer of zero duration may be.
FetchStatusReturn ==
    /\ step.kind = "status" /\ stPc = "fetching" /\ elapsed
    /\ \E r \in RunOutcomes :
         LET res == fetchStatus(r)
             status == StringAt(res.Output, "status")
         IN /\ calls' = [calls EXCEPT ![Len(calls)].returned = TRUE,
                                      ![Len(calls)].out = r]
            /\ IF ~step.config.Wait
               THEN /\ result' = res
                    /\ execErr' = fetchStatusError(r)
                    /\ stPc' = "done"
                    /\ UNCHANGED <<timer, waits>>
               ELSE IF fetchStatusError(r) # NilError
               THEN /\ result' = NoResult
                    /\ execErr' = fetchStatusError(r)
                    /\ stPc' = "done"
                    /\ UNCHANGED <<timer, waits>>
               ELSE IF isTerminalStatus(status)
               THEN /\ result' = res
                    /\ stPc' = "done"
                    /\ execErr' = NilError
                    /\ UNCHANGED <<timer, waits>>
               ELSE IF clock > deadline
               THEN /\ result' = errorResult(TimeoutMessage(step.config.RunID,
                                                            step.config.Timeout))
                    /\ stPc' = "done"
                    /\ execErr' = NilError
                    /\ UNCHANGED <<timer, waits>>
               ELSE /\ timer' = clock + step.config.PollInterval
                    /\ UNCHANGED <<result, execErr>>
                    /\ IF ctxDone
                       THEN \/ /\ stPc' = "wokenByDone"
                               /\ UNCHANGED waits
                            \/ /\ step.config.PollInterval = 0
                               /\ stPc' = "loop"
                               /\ waits' = waits + 1
                       ELSE /\ stPc' = "select"
                            /\ UNCHANGED waits
    /\ UNCHANGED <<otherVars, step, args, clock, deadline, ctxDone, cancelledDuring, elapsed>>

\* the select without its timer case
TimeAfter_NoTimerCase ==
    /\ step.kind = "status" /\ stPc = "select" /\ FALSE
    /\ stPc' = "loop"
    /\ waits' = waits + 1
    /\ UNCHANGED <<otherVars, step, args, clock, deadline, ctxDone, cancelledDuring, timer,
                   elapsed, calls, result, execErr>>

\* case <-time.After(s.config.PollInterval): the timer wakes the parked
\* goroutine, which goes to the top of the loop
TimeAfter ==
    /\ step.kind = "status" /\ stPc = "select" /\ clock >= timer
    /\ stPc' = "loop"
    /\ waits' = waits + 1
    /\ UNCHANGED <<otherVars, step, args, clock, deadline, ctxDone, cancelledDuring, timer,
                   elapsed, calls, result, execErr>>

\* the cancellation case reporting a timeout
CtxDone_ReportsTimeout ==
    /\ step.kind = "status" /\ stPc = "wokenByDone"
    /\ result' = errorResult(TimeoutMessage(step.config.RunID, step.config.Timeout))
    /\ stPc' = "done"
    /\ execErr' = NilError
    /\ UNCHANGED <<otherVars, step, args, clock, deadline, ctxDone, cancelledDuring, timer,
                   elapsed, calls, waits>>

\* case <-ctx.Done(): Execute returns the cancellation result
CtxDone ==
    /\ step.kind = "status" /\ stPc = "wokenByDone"
    /\ result' = errorResult(CancelledMessage)
    /\ stPc' = "done"
    /\ execErr' = NilError
    /\ UNCHANGED <<otherVars, step, args, clock, deadline, ctxDone, cancelledDuring, timer,
                   elapsed, calls, waits>>

\* the caller cancels the context; a goroutine parked in the select is
\* woken by it
Cancel ==
    /\ ~ctxDone /\ stPc # "done"
    /\ ctxDone' = TRUE
    /\ cancelledDuring' = stPc
    /\ stPc' = IF stPc = "select" THEN "wokenByDone" ELSE stPc
    /\ UNCHANGED <<otherVars, step, args, clock, deadline, timer, elapsed, calls, waits, result, execErr>>

\* time passes while Execute runs
Tick ==
    /\ stPc \in {"loop", "fetching", "select", "wokenByDone"}
    /\ clock < MaxTime \/ ~elapsed
    /\ clock' = Min(clock + 1, MaxTime)
    /\ elapsed' = TRUE
    /\ UNCHANGED <<otherVars, step, args, stPc, deadline, ctxDone, cancelledDuring, timer,
                   calls, waits, result, execErr>>

NextSteps ==
    \/ TriggerExecute
    \/ CheckExecute
    \/ StatusExecute
    \/ GetWorkflowRunCall
    \/ FetchStatusReturn
    \/ TimeAfter
    \/ CtxDone
    \/ Cancel
    \/ Tick

SpecSteps == InitSteps /\ [][NextSteps]_vars

\* the goroutine of the status step runs, every call of the client returns,
\* timers fire and time advances
SpecStepsLive ==
    /\ SpecSteps
    /\ WF_vars(StatusExecute)
    /\ WF_vars(GetWorkflowRunCall)
    /\ WF_vars(FetchStatusReturn)
    /\ WF_vars(TimeAfter)
    /\ WF_vars(CtxDone)
    /\ WF_vars(Tick)

(***************************************************************************)
(* Construction of the check step: newCreateCheckStep parses the raw       *)
(* config, and Execute runs on the step it returns.                        *)
(***************************************************************************)
validStatuses == {"queued", "in_progress", "completed"}

validConclusions ==
    {"success", "failure", "neutral", "cancelled", "skipped", "timed_out",
     "action_required"}

\* os.ExpandEnv on the token strings of the model: a reference to
\* GITHUB_TOKEN becomes the variable's value ("" when it is unset), a
\* string without "$" stays as it is
ExpandEnv(s, env) == IF s = "${GITHUB_TOKEN}" THEN env ELSE s

\* a parse that failed with this message
ConfigError(msg) == [ok |-> FALSE, err |-> msg]

\* parseCreateCheckConfig requiring a conclusion for every status
parseCreateCheckConfig_AlwaysRequireConclusion(raw, env) ==
    LET status == IF StringAt(raw, "status") = "" THEN "queued"
                  ELSE StringAt(raw, "status")
        conclusion == StringAt(raw, "conclusion")
    IN IF StringAt(raw, "owner") = "" THEN ConfigError(<<"config.owner is required">>)
       ELSE IF StringAt(raw, "repo") = "" THEN ConfigError(<<"config.repo is required">>)
       ELSE IF StringAt(raw, "sha") = "" THEN ConfigError(<<"config.sha is required">>)
       ELSE IF StringAt(raw, "name") = "" THEN ConfigError(<<"config.name is required">>)
       ELSE IF status \notin validStatuses
       THEN ConfigError(<<"config.status %q is invalid; must be one of: queued, in_progress, completed", status>>)
       ELSE IF conclusion = ""
       THEN ConfigError(<<"config.conclusion is required when status=completed">>)
       ELSE IF conclusion # "" /\ conclusion \notin validConclusions
       THEN ConfigError(<<"config.conclusion %q is invalid", conclusion>>)
       ELSE [ok |-> TRUE,
             cfg |-> [Owner |-> Chars(StringAt(raw, "owner")),
                      Repo |-> Chars(StringAt(raw, "repo")),
                      SHA |-> Chars(StringAt(raw, "sha")),
                      Name |-> StringAt(raw, "name"),
                      Status |-> status,
                      Conclusion |-> conclusion,
                      Title |-> StringAt(raw, "title"),
                      Summary |-> StringAt(raw, "summary"),
                      Token |-> ExpandEnv(StringAt(raw, "token"), env)]]

\* parseCreateCheckConfig validating the conclusion only of a completed
\* check
parseCreateCheckConfig_ValidateWhenCompleted(raw, env) ==
    LET status == IF StringAt(raw, "status") = "" THEN "queued"
                  ELSE StringAt(raw, "status")
        conclusion == StringAt(raw, "conclusion")
    IN IF StringAt(raw, "owner") = "" THEN ConfigError(<<"config.owner is required">>)
       ELSE IF StringAt(raw, "repo") = "" THEN ConfigError(<<"config.repo is required">>)
       ELSE IF StringAt(raw, "sha") = "" THEN ConfigError(<<"config.sha is required">>)
       ELSE IF StringAt(raw, "name") = "" THEN ConfigError(<<"config.name is required">>)
       ELSE IF status \notin validStatuses
       THEN ConfigError(<<"config.status %q is invalid; must be one of: queued, in_progress, completed", status>>)
       ELSE IF status = "completed" /\ conclusion = ""
       THEN ConfigError(<<"config.conclusion is required when status=completed">>)
       ELSE IF status = "completed" /\ conclusion \notin validConclusions
       THEN ConfigError(<<"config.conclusion %q is invalid", conclusion>>)
       ELSE [ok |-> TRUE,
             cfg |-> [Owner |-> Chars(StringAt(raw, "owner")),
                      Repo |-> Chars(StringAt(raw, "repo")),
                      SHA |-> Chars(StringAt(raw, "sha")),
                      Name |-> StringAt(raw, "name"),
                      Status |-> status,
                      Conclusion |-> conclusion,
                      Title |-> StringAt(raw, "title"),
                      Summary |-> StringAt(raw, "summary"),
                      Token |-> ExpandEnv(StringAt(raw, "token"), env)]]

\* parseCreateCheckConfig: owner, repo, sha and name must be non-empty
\* strings; status defaults to "queued" and must be a valid status; a
\* completed check needs a conclusion; a conclusion that is given must be a
\* valid one; the token is expanded from the environment.
parseCreateCheckConfig(raw, env) ==
    LET status == IF StringAt(raw, "status") = "" THEN "queued"
                  ELSE StringAt(raw, "status")
        conclusion == StringAt(raw, "conclusion")
    IN IF StringAt(raw, "owner") = "" THEN ConfigError(<<"config.owner is required">>)
       ELSE IF StringAt(raw, "repo") = "" THEN ConfigError(<<"config.repo is required">>)
       ELSE IF StringAt(raw, "sha") = "" THEN ConfigError(<<"config.sha is required">>)
       ELSE IF StringAt(raw, "name") = "" THEN ConfigError(<<"config.name is required">>)
       ELSE IF status \notin validStatuses
       THEN ConfigError(<<"config.status %q is invalid; must be one of: queued, in_progress, completed", status>>)
       ELSE IF status = "completed" /\ conclusion = ""
       THEN ConfigError(<<"config.conclusion is required when status=completed">>)
       ELSE IF conclusion # "" /\ conclusion \notin validConclusions
       THEN ConfigError(<<"config.conclusion %q is invalid", conclusion>>)
       ELSE [ok |-> TRUE,
             cfg |-> [Owner |-> Chars(StringAt(raw, "owner")),
                      Repo |-> Chars(StringAt(raw, "repo")),
                      SHA |-> Chars(StringAt(raw, "sha")),
                      Name |-> StringAt(raw, "name"),
                      Status |-> status,
                      Conclusion |-> conclusion,
                      Title |-> StringAt(raw, "title"),
                      Summary |-> StringAt(raw, "summary"),
                      Token |-> ExpandEnv(StringAt(raw, "token"), env)]]

\* raw configs of a check step: keys absent, of the wrong type, empty,
\* valid and invalid
RawCheckConfigs ==
    { Present([owner |-> o, repo |-> Str("app"), sha |-> sha, name |-> n,
               status |-> st, conclusion |-> c, title |-> ts.title,
               summary |-> ts.summary, token |-> tk], Absent) :
        o \in {Absent, Str("{{.owner}}")},
        sha \in {Str("abc123"), Str("{{ .commit }}")},
        n \in {Str("build"), Str("")},
        st \in {Absent, Str("queued"), Str("in_progress"), Str("completed"),
                Str("pending"), Num},
        c \in {Absent, Str(""), Str("success"), Str("timed_out"),
               Str("bad-conclusion"), Num},
        ts \in {[title |-> Absent, summary |-> Absent],
                [title |-> Str("CI Pipeline"), summary |-> Absent]},
        tk \in {Absent, Str("${GITHUB_TOKEN}")} }

\* values of GITHUB_TOKEN in the environment; "" when it is not set
Environments == {"", "ghp_token"}

\* the caller of newCreateCheckStep holds a raw config; Execute is called
\* with data in which the templates of the config resolve
InitCheck ==
    /\ WebhookIdle
    /\ NoResolve
    /\ parked = NoParked
    /\ \E raw \in RawCheckConfigs, env \in Environments :
         step = [kind |-> "new", raw |-> raw, env |-> env]
    /\ \E a \in ArgSets :
         /\ a.triggerData # EmptyMap /\ a.stepOutputs = EmptyMap /\ a.current = EmptyMap
         /\ args = a
    /\ stPc = "idle"
    /\ clock = 0
    /\ deadline = NoDeadline
    /\ ctxDone = FALSE
    /\ cancelledDuring = "never"
    /\ timer = NoTimer
    /\ elapsed = FALSE
    /\ calls = <<>>
    /\ waits = 0
    /\ result = NoResult
    /\ execErr = NilError

\* newCreateCheckStep: the step with the parsed config, or nil and the
\* error
NewCreateCheckStep ==
    /\ step.kind = "new"
    /\ LET parsed == parseCreateCheckConfig(step.raw, step.env)
       IN step' = IF ~parsed.ok
                  THEN [kind |-> "none", raw |-> step.raw, err |-> parsed.err]
                  ELSE [kind |-> "check", raw |-> step.raw, config |-> parsed.cfg]
    /\ UNCHANGED <<otherVars, args, stPc, clock, deadline, ctxDone, cancelledDuring, timer,
                   elapsed, calls, waits, result, execErr>>

NextCheck ==
    \/ NewCreateCheckStep
    \/ CheckExecute

SpecCheck == InitCheck /\ [][NextCheck]_vars

(***************************************************************************)
(* Construction of the status step: newActionStatusStep parses the raw     *)
(* config, and Execute runs on the step it returns.                        *)
(***************************************************************************)
Digits == <<"0", "1", "2", "3", "4", "5", "6", "7", "8", "9">>

IsDigit(c) == \E i \in 1..Len(Digits) : Digits[i] = c

DigitValue(c) == (CHOOSE i \in 1..Len(Digits) : Digits[i] = c) - 1

RECURSIVE ParseDigits(_, _)
ParseDigits(cs, acc) ==
    IF cs = <<>> THEN acc ELSE ParseDigits(Tail(cs), 10 * acc + DigitValue(cs[1]))

\* strconv.ParseInt(v, 10, 64) on the characters of v: an optional sign and
\* one or more decimal digits, anything else is a syntax error
ParseInt(cs) ==
    LET signed == cs # <<>> /\ cs[1] \in {"+", "-"}
        ds == IF signed THEN Tail(cs) ELSE cs
    IN IF ds = <<>> \/ \E i \in 1..Len(ds) : ~IsDigit(ds[i])
       THEN [ok |-> FALSE, n |-> 0]
       ELSE [ok |-> TRUE,
             n |-> IF signed /\ cs[1] = "-" THEN 0 - ParseDigits(ds, 0)
                   ELSE ParseDigits(ds, 0)]

\* time.ParseDuration on the duration strings of the model, in seconds
ParseDuration(s) ==
    CASE s = "0s" -> [ok |-> TRUE, d |-> 0]
      [] s = "1s" -> [ok |-> TRUE, d |-> 1]
      [] s = "2s" -> [ok |-> TRUE, d |-> 2]
      [] s = "10s" -> [ok |-> TRUE, d |-> 10]
      [] s = "30m" -> [ok |-> TRUE, d |-> 1800]
      [] OTHER -> [ok |-> FALSE, d |-> 0]

\* a float64 with this integral part (int64(v) cuts the fraction off)
Float(whole, tenths) == [t |-> "float", whole |-> whole, tenths |-> tenths]

\* the switch on raw["run_id"].(type): int, int64 and float64 are
\* converted, a non-empty string is parsed, anything else leaves 0
RunIDOf(raw) ==
    IF "run_id" \notin DOMAIN raw THEN [ok |-> TRUE, n |-> 0]
    ELSE CASE raw["run_id"].t = "int" -> [ok |-> TRUE, n |-> raw["run_id"].n]
           [] raw["run_id"].t = "float" -> [ok |-> TRUE, n |-> raw["run_id"].whole]
           [] raw["run_id"].t = "str" ->
                IF raw["run_id"].s = "" THEN [ok |-> TRUE, n |-> 0]
                ELSE ParseInt(Chars(raw["run_id"].s))
           [] OTHER -> [ok |-> TRUE, n |-> 0]

\* parseActionStatusConfig: owner and repo must be non-empty strings;
\* run_id must convert or parse to a number other than 0; the token is
\* expanded from the environment; wait is a bool or false; poll_interval
\* and timeout default to "10s" and "30m" and must parse as durations.
parseActionStatusConfig(raw, env) ==
    LET runID == RunIDOf(raw)
        pollStr == IF StringAt(raw, "poll_interval") = "" THEN "10s"
                   ELSE StringAt(raw, "poll_interval")
        timeoutStr == IF StringAt(raw, "timeout") = "" THEN "30m"
                      ELSE StringAt(raw, "timeout")
    IN IF StringAt(raw, "owner") = "" THEN ConfigError(<<"config.owner is required">>)
       ELSE IF StringAt(raw, "repo") = "" THEN ConfigError(<<"config.repo is required">>)
       ELSE IF ~runID.ok
       THEN ConfigError(<<"config.run_id is not a valid integer: %w", raw["run_id"].s>>)
       ELSE IF runID.n = 0 THEN ConfigError(<<"config.run_id is required">>)
       ELSE IF ~ParseDuration(pollStr).ok
       THEN ConfigError(<<"config.poll_interval is invalid: %w", pollStr>>)
       ELSE IF ~ParseDuration(timeoutStr).ok
       THEN ConfigError(<<"config.timeout is invalid: %w", timeoutStr>>)
       ELSE [ok |-> TRUE,
             cfg |-> [Owner |-> StringAt(raw, "owner"),
                      Repo |-> StringAt(raw, "repo"),
                      RunID |-> runID.n,
                      Token |-> ExpandEnv(StringAt(raw, "token"), env),
                      Wait |-> "wait" \in DOMAIN raw /\ raw["wait"].t = "bool"
                               /\ raw["wait"].b,
                      PollInterval |-> ParseDuration(pollStr).d,
                      Timeout |-> ParseDuration(timeoutStr).d]]

\* the run_id of the step's documentation
DocumentedRunID == Str("{{.steps.trigger.run_id}}")

\* raw configs of a status step.  The default durations are longer than
\* the time the model lets pass, so a config that polls names its own.
RawStatusConfigs ==
    { Present([owner |-> o, repo |-> Str("workflow"), run_id |-> id, token |-> tk,
               wait |-> wd.wait, poll_interval |-> wd.poll, timeout |-> wd.timeout],
              Absent) :
        o \in {Absent, Str("GoCodeAlone")},
        id \in {Absent, IntVal(7), IntVal(0), Float(7, 5), Str("7"), Str(""),
                DocumentedRunID},
        tk \in {Absent, Str("${GITHUB_TOKEN}")},
        wd \in {[wait |-> Absent, poll |-> Absent, timeout |-> Absent],
                [wait |-> Str("true"), poll |-> Str("1s"), timeout |-> Str("soon")],
                [wait |-> BoolVal(TRUE), poll |-> Str("0s"), timeout |-> Str("1s")],
                [wait |-> BoolVal(TRUE), poll |-> Str("1s"), timeout |-> Str("2s")]} }

\* step outputs in which the documented reference resolves to run 7
TriggerOutputs == (Chars("trigger") :> (Chars("run_id") :> Chars("7")))

InitStatus ==
    /\ WebhookIdle
    /\ NoResolve
    /\ parked = NoParked
    /\ \E raw \in RawStatusConfigs, env \in Environments :
         step = [kind |-> "new", raw |-> raw, env |-> env]
    /\ args \in {NoArgsGiven,
                 [triggerData |-> EmptyMap, stepOutputs |-> TriggerOutputs,
                  current |-> EmptyMap]}
    /\ stPc = "idle"
    /\ clock = 0
    /\ deadline = NoDeadline
    /\ ctxDone = FALSE
    /\ cancelledDuring = "never"
    /\ timer = NoTimer
    /\ elapsed = FALSE
    /\ calls = <<>>
    /\ waits = 0
    /\ result = NoResult
    /\ execErr = NilError

\* newActionStatusStep: the step with the parsed config, or nil and the
\* error
NewActionStatusStep ==
    /\ step.kind = "new"
    /\ LET parsed == parseActionStatusConfig(step.raw, step.env)
       IN step' = IF ~parsed.ok
                  THEN [kind |-> "none", raw |-> step.raw, err |-> parsed.err]
                  ELSE [kind |-> "status", raw |-> step.raw, config |-> parsed.cfg]
    /\ UNCHANGED <<otherVars, args, stPc, clock, deadline, ctxDone, cancelledDuring, timer,
                   elapsed, calls, waits, result, execErr>>

NextStatus ==
    \/ NewActionStatusStep
    \/ StatusExecute
    \/ GetWorkflowRunCall
    \/ FetchStatusReturn
    \/ TimeAfter
    \/ CtxDone
    \/ Cancel
    \/ Tick

SpecStatus == InitStatus /\ [][NextStatus]_vars

(***************************************************************************)
(* Two goroutines at once.  net/http runs every request in a goroutine of  *)
(* its own, and the engine may call Execute of one step from several       *)
(* goroutines.  The variables of handleWebhook and of Execute are the      *)
(* running goroutine's locals and arguments, `parked` holds those of the   *)
(* other goroutine, and the scheduler may switch between the two before    *)
(* any step.  config and publisher are the fields of the one webhookModule *)
(* and step.config the field of the one step that both goroutines use;     *)
(* the clock is the same for both.                                         *)
(***************************************************************************)
HandlerLocals ==
    [pc |-> pc, req |-> req, body |-> body, eventType |-> eventType, event |-> event,
     resp |-> resp, steps |-> steps, pubCalls |-> pubCalls]

ExecuteLocals ==
    [args |-> args, stPc |-> stPc, deadline |-> deadline, ctxDone |-> ctxDone,
     cancelledDuring |-> cancelledDuring, timer |-> timer, elapsed |-> elapsed,
     calls |-> calls, waits |-> waits, result |-> result, execErr |-> execErr]

\* a goroutine that is not serving a request
IdleHandler ==
    [pc |-> "idle", req |-> NoRequest, body |-> NoBody, eventType |-> "",
     event |-> NoEvent, resp |-> <<>>, steps |-> <<>>, pubCalls |-> <<>>]

\* a goroutine about to call Execute with the arguments a
IdleExecute(a) ==
    [args |-> a, stPc |-> "idle", deadline |-> NoDeadline, ctxDone |-> FALSE,
     cancelledDuring |-> "never", timer |-> NoTimer, elapsed |-> FALSE,
     calls |-> <<>>, waits |-> 0, result |-> NoResult, execErr |-> NilError]

\* the requests delivered concurrently: POSTs of 512 bytes, signed with
\* the first secret or unsigned, a push document or no JSON, an event type
\* in or outside the allow-lists of the model
ConcurrentRequests ==
    {r \in Requests :
        /\ r.method = "POST" /\ r.len = SmallLen /\ ~r.ioErr
        /\ r.doc \in {PushDoc, Malformed}
        /\ r.eventType \in {"push", "star"}
        /\ r.sig \in {<<>>, signBody("s1", [doc |-> r.doc, len |-> r.len])}}

\* the arguments of concurrent Execute calls: trigger data that resolves
\* the placeholders of the configurations, or none
ConcurrentArgs ==
    {a \in ArgSets : /\ Chars("owner") \in DOMAIN a.triggerData
                        => Chars("commit") \in DOMAIN a.triggerData
                     /\ a.current = EmptyMap}

\* the status steps executed concurrently: a second between polls and a
\* timeout of one second, with and without wait and token
ConcurrentStatusConfigs ==
    {c \in StatusConfigs : c.PollInterval = 1 /\ c.Timeout = 1}

\* either a module that receives deliveries, or a step that two goroutines
\* execute
InitConcurrent ==
    /\ sigIn = NoSigCall
    /\ sigOut = NoSigCall
    /\ normIn = NoNormCall
    /\ normOut = NoNormCall
    /\ NoResolve
    /\ \/ /\ \E raw \in RawConfigs : config = parseWebhookConfig(raw)
          /\ publisher = "nil"
          /\ pc = "idle"
          /\ req = NoRequest
          /\ body = NoBody
          /\ eventType = ""
          /\ event = NoEvent
          /\ resp = <<>>
          /\ steps = <<>>
          /\ pubCalls = <<>>
          /\ delivered = 0
          /\ nPublished = 0
          /\ NoExecution
          /\ parked = [handler |-> IdleHandler, execute |-> IdleExecute(NoArgs)]
       \/ /\ WebhookIdle
          /\ \/ \E c \in ConcurrentStatusConfigs :
                  /\ step = [kind |-> "status", config |-> c]
                  /\ args = NoArgsGiven
                  /\ parked = [handler |-> IdleHandler, execute |-> IdleExecute(NoArgsGiven)]
             \/ \E c \in TriggerConfigs, a, b \in ConcurrentArgs :
                  /\ step = [kind |-> "trigger", config |-> c]
                  /\ args = a
                  /\ parked = [handler |-> IdleHandler, execute |-> IdleExecute(b)]
             \/ \E c \in CheckConfigs, a, b \in ConcurrentArgs :
                  /\ step = [kind |-> "check", config |-> c]
                  /\ args = a
                  /\ parked = [handler |-> IdleHandler, execute |-> IdleExecute(b)]
          /\ stPc = "idle"
          /\ clock = 0
          /\ deadline = NoDeadline
          /\ ctxDone = FALSE
          /\ cancelledDuring = "never"
          /\ timer = NoTimer
          /\ elapsed = FALSE
          /\ calls = <<>>
          /\ waits = 0
          /\ result = NoResult
          /\ execErr = NilError

\* a request arrives at the goroutine that is free
ArriveConcurrent == step = NoStep /\ Arrive /\ req' \in ConcurrentRequests

\* the engine wires the publisher of the module
SetPublisherConcurrent == step = NoStep /\ SetMessagePublisher

\* Execute of the status step is entered while its deadline is within the
\* times the clock takes
StatusExecuteConcurrent ==
    /\ step.kind = "status"
    /\ clock + step.config.Timeout < MaxTime
    /\ StatusExecute

\* the caller of an Execute in flight cancels its context
CancelConcurrent == step # NoStep /\ Cancel

\* handleWebhook and Execute keeping the body read and the arguments in
\* fields of the module and of the step, which the goroutines share
Switch_LocalsInFields ==
    /\ parked # NoParked
    /\ parked' = [handler |-> HandlerLocals, execute |-> ExecuteLocals]
    /\ pc' = parked.handler.pc
    /\ req' = parked.handler.req
    /\ body' = body
    /\ eventType' = parked.handler.eventType
    /\ event' = parked.handler.event
    /\ resp' = parked.handler.resp
    /\ steps' = parked.handler.steps
    /\ pubCalls' = parked.handler.pubCalls
    /\ args' = args
    /\ stPc' = parked.execute.stPc
    /\ deadline' = parked.execute.deadline
    /\ ctxDone' = parked.execute.ctxDone
    /\ cancelledDuring' = parked.execute.cancelledDuring
    /\ timer' = parked.execute.timer
    /\ elapsed' = parked.execute.elapsed
    /\ calls' = parked.execute.calls
    /\ waits' = parked.execute.waits
    /\ result' = parked.execute.result
    /\ execErr' = parked.execute.execErr
    /\ UNCHANGED <<config, publisher, delivered, nPublished, sigIn, sigOut, normIn, normOut,
                   step, clock, resolveVars>>

\* the scheduler runs the other goroutine: its locals become the current
\* ones; the fields of the module and of the step, and the clock, stay
Switch ==
    /\ parked # NoParked
    /\ parked' = [handler |-> HandlerLocals, execute |-> ExecuteLocals]
    /\ pc' = parked.handler.pc
    /\ req' = parked.handler.req
    /\ body' = parked.handler.body
    /\ eventType' = parked.handler.eventType
    /\ event' = parked.handler.event
    /\ resp' = parked.handler.resp
    /\ steps' = parked.handler.steps
    /\ pubCalls' = parked.handler.pubCalls
    /\ args' = parked.execute.args
    /\ stPc' = parked.execute.stPc
    /\ deadline' = parked.execute.deadline
    /\ ctxDone' = parked.execute.ctxDone
    /\ cancelledDuring' = parked.execute.cancelledDuring
    /\ timer' = parked.execute.timer
    /\ elapsed' = parked.execute.elapsed
    /\ calls' = parked.execute.calls
    /\ waits' = parked.execute.waits
    /\ result' = parked.execute.result
    /\ execErr' = parked.execute.execErr
    /\ UNCHANGED <<config, publisher, delivered, nPublished, sigIn, sigOut, normIn, normOut,
                   step, clock, resolveVars>>

NextConcurrent ==
    \/ ArriveConcurrent
    \/ SetPublisherConcurrent
    \/ CheckMethod
    \/ ReadBody
    \/ CheckSignature
    \/ CheckEventHeader
    \/ FilterEvents
    \/ Normalize
    \/ Publish
    \/ Accept
    \/ Return
    \/ TriggerExecute
    \/ CheckExecute
    \/ StatusExecuteConcurrent
    \/ GetWorkflowRunCall
    \/ FetchStatusReturn
    \/ TimeAfter
    \/ CtxDone
    \/ CancelConcurrent
    \/ Tick
    \/ Switch

SpecConcurrent == InitConcurrent /\ [][NextConcurrent]_vars

(***************************************************************************)
(* Properties of the webhook receiver                                      *)
(***************************************************************************)
\* the bytes the client sent
SentBody == [doc |-> req.doc, len |-> req.len]

\* the signature header of the current delivery is missing or is not the
\* signature of the sent body under the configured secret
BadSignature == req.sig = <<>> \/ req.sig # signBody(config.Secret, SentBody)

InFlight == pc # "idle"

Normalized == \E i \in 1..Len(steps) : steps[i] = "normalize"

Codes == [i \in 1..Len(resp) |-> resp[i].code]

\* C1 as stated: with a secret configured, every delivery whose signature
\* header is missing or invalid ends with a 401 response, is never
\* normalized and never published.
C1_AnyDeliveryUnauthorized ==
    (InFlight /\ config.Secret # "" /\ BadSignature) =>
        /\ ~Normalized /\ event = NoEvent /\ pubCalls = <<>>
        /\ pc = "done" => Codes = <<401>>

\* C1 amended: with a secret configured, a delivery whose signature header is
\* missing or invalid is never normalized and never published, and it ends
\* with a 401 response when it is a POST whose body was read within the limit
\* (a non-POST delivery ends with 405 and an unreadable or oversized body
\* with 400, before the signature is looked at).
C1_BadSignatureUnauthorized ==
    (InFlight /\ config.Secret # "" /\ BadSignature) =>
        /\ ~Normalized /\ event = NoEvent /\ pubCalls = <<>>
        /\ (pc = "done" /\ req.method = "POST" /\ ~req.ioErr /\ req.len <= maxBytes)
              => Codes = <<401>>

\* a POST with a parseable body, an allowed event type and a signature made
\* with another secret has been answered 401
C1_Witness ==
    /\ pc = "done" /\ config.Secret = "s1" /\ req.method = "POST"
    /\ req.sig = signBody("s2", SentBody) /\ req.doc = PushDoc /\ req.len = maxBytes
    /\ req.eventType = "push" /\ Codes = <<401>>

(***************************************************************************)
(* Properties of validateSignature                                         *)
(***************************************************************************)
\* C2: a header that is "sha256=" followed by the hex HMAC-SHA256 of the body
\* under some secret S2 validates against the body and the secret S exactly
\* when S2 = S: the signature made with S is accepted, one made with any
\* other secret is rejected.
C2_SignedWithSameSecretOnly ==
    sigOut.called =>
        \A s2 \in SecretSet :
            sigIn.sig = signBody(s2, sigIn.body) => (sigOut.ok <=> s2 = sigIn.secret)

\* the signature made with "s2" was checked against "s1" and rejected
C2_Witness ==
    /\ sigOut.called /\ sigIn.secret = "s1"
    /\ sigIn.sig = signBody("s2", sigIn.body) /\ ~sigOut.ok

\* the header does not start with the seven characters sha256=
LacksPrefix(sig) == Len(sig) < 7 \/ \E i \in 1..7 : sig[i] # prefix[i]

\* C3: for every body and secret, a header value that does not start with
\* "sha256=" is rejected, the bare correct digest and the empty string
\* included.
C3_NoPrefixRejected ==
    (sigOut.called /\ LacksPrefix(sigIn.sig)) => ~sigOut.ok

\* the bare hex digest of the body under the right secret was rejected
C3_Witness ==
    /\ sigOut.called /\ sigIn.sig = computeSignature(sigIn.body, sigIn.secret)
    /\ ~sigOut.ok

(***************************************************************************)
(* Properties of handleWebhook                                            *)
(***************************************************************************)
Readable == ~req.ioErr /\ req.len <= maxBytes

Allowed == config.Events = <<>> \/ \E i \in 1..Len(config.Events) : config.Events[i] = req.eventType

\* the sent document unmarshals into a map: a JSON object or null
Parseable == req.doc.k \in {"object", "null"}

PublishFailed == pubCalls # <<>> /\ pubCalls[Len(pubCalls)].err

\* C4 as stated: a delivery calls the sink at most once and every delivery
\* answered "accepted" has made exactly one publish call.
C4_AcceptedHasOnePublish ==
    /\ Len(pubCalls) <= 1
    /\ (pc = "done" /\ resp = <<Accepted>>) => Len(pubCalls) = 1

\* C4 amended: a delivery calls the sink at most once, never again after a
\* failure, and the sink has received no more calls than there were
\* deliveries; a delivery answered "accepted" has made exactly one publish
\* call when a publish sink is attached and none when no sink is attached.
C4_AtMostOnePublish ==
    /\ Len(pubCalls) <= 1
    /\ nPublished <= delivered
    /\ (pc = "done" /\ resp = <<Accepted>>) =>
           Len(pubCalls) = (IF publisher = "sink" THEN 1 ELSE 0)

\* a delivery was accepted after its one successful publish call
C4_Witness ==
    /\ pc = "done" /\ resp = <<Accepted>> /\ publisher = "sink"
    /\ Len(pubCalls) = 1 /\ ~pubCalls[1].err /\ delivered = 2

\* C5: with a non-empty allow-list that lacks the delivery's event type, a
\* POST that passed the body, signature and event-header checks is answered
\* 200 {"status":"ignored"}, its body is never normalized (malformed or not)
\* and nothing is published.
C5_FilteredIgnored ==
    (/\ InFlight /\ req.method = "POST" /\ Readable
     /\ (config.Secret = "" \/ ~BadSignature)
     /\ req.eventType # "" /\ config.Events # <<>> /\ ~Allowed) =>
        /\ ~Normalized /\ event = NoEvent /\ pubCalls = <<>>
        /\ pc = "done" => resp = <<Ignored>>

\* a pull_request delivery with a malformed body was ignored under ["push"]
C5_Witness ==
    /\ pc = "done" /\ config.Events = <<"push">> /\ req.eventType = "pull_request"
    /\ req.doc = Malformed /\ resp = <<Ignored>>

Order == <<"method", "read", "signature", "event", "filter", "normalize",
           "publish", "accept">>

\* the response of the checks that follow the signature check, and the
\* number of the check that gives it
LaterOutcome ==
    IF req.eventType = ""
    THEN [n |-> 4, r |-> Response(400, "missing X-GitHub-Event header")]
    ELSE IF ~Allowed THEN [n |-> 5, r |-> Ignored]
    ELSE IF ~Parseable THEN [n |-> 6, r |-> Response(400, "failed to normalize event")]
    ELSE IF PublishFailed THEN [n |-> 7, r |-> Response(500, "failed to publish event")]
    ELSE [n |-> 8, r |-> Accepted]

\* the first check of Order that fails for the current delivery
FirstFailure ==
    IF req.method # "POST" THEN [n |-> 1, r |-> Response(405, "method not allowed")]
    ELSE IF ~Readable THEN [n |-> 2, r |-> Response(400, "failed to read body")]
    ELSE IF config.Secret # "" /\ BadSignature
    THEN [n |-> 3, r |-> Response(401, IF req.sig = <<>>
                                       THEN "missing X-Hub-Signature-256 header"
                                       ELSE "invalid signature")]
    ELSE LaterOutcome

\* C6: the checks of a delivery run in the order method, body size,
\* signature, event-type header, allow-list, normalization, publish, accept;
\* the first one that fails gives the single response (405, 400, 401, 400,
\* 200 ignored, 400, 500, else 200 accepted) and no later check runs.
C6_ChecksInOrder ==
    /\ Len(steps) <= Len(Order)
    /\ \A i \in 1..Len(steps) : steps[i] = Order[i]
    /\ Len(resp) <= 1
    /\ resp # <<>> => pc = "done"
    /\ pc = "done" => /\ resp = <<FirstFailure.r>>
                      /\ Len(steps) = FirstFailure.n
    /\ (pc = "done" /\ req.method # "POST") => pubCalls = <<>>

\* with a secret set, a POST lacking both the signature and the event-type
\* header was answered 401
C6_Witness ==
    /\ pc = "done" /\ config.Secret # "" /\ req.method = "POST" /\ Readable
    /\ req.sig = <<>> /\ req.eventType = "" /\ Codes = <<401>>

\* C7: when the attached sink's Publish fails, the delivery ends with a 500
\* response and is not answered "accepted".
C7_PublishFailureIs500 ==
    PublishFailed =>
        /\ pc = "done" /\ Codes = <<500>>
        /\ \A i \in 1..Len(resp) : resp[i] # Accepted

\* the sink was attached, its Publish failed and the delivery got 500
C7_Witness ==
    /\ publisher = "sink" /\ Len(pubCalls) = 1 /\ pubCalls[1].err
    /\ pc = "done" /\ Codes = <<500>>

\* the response a delivery gets when the signature header is not looked at
OutcomeWithoutSignature ==
    IF req.method # "POST" THEN Response(405, "method not allowed")
    ELSE IF ~Readable THEN Response(400, "failed to read body")
    ELSE LaterOutcome.r

\* C8: with no secret configured the response of a delivery is a function of
\* the request without its signature header (the same for an absent, a valid
\* and a garbage header), never 401, and a readable POST with an allowed
\* event type and a parseable body whose publish does not fail is accepted.
C8_NoSecretIgnoresSignature ==
    (pc = "done" /\ config.Secret = "") =>
        /\ resp = <<OutcomeWithoutSignature>>
        /\ Codes # <<401>>
        /\ (/\ req.method = "POST" /\ Readable /\ req.eventType # "" /\ Allowed
            /\ Parseable /\ ~PublishFailed) => resp = <<Accepted>>

\* with no secret, a delivery carrying a garbage signature was accepted
C8_Witness ==
    /\ pc = "done" /\ config.Secret = ""
    /\ req.sig = prefix \o <<"b", "a", "d", "h", "a", "s", "h">>
    /\ resp = <<Accepted>>

\* C9: every publish call uses the configured topic ("git.events" when the
\* config names none) and metadata whose event_type, provider and repository
\* equal those fields of the serialized event, event_type being the request's
\* X-GitHub-Event header and provider "github".
C9_PublishTopicAndMetadata ==
    /\ \A raw \in RawConfigs :
          parseWebhookConfig(raw).Topic =
              (IF "topic" \in DOMAIN raw THEN raw["topic"].s ELSE "git.events")
    /\ \A i \in 1..Len(pubCalls) :
          /\ pubCalls[i].topic = config.Topic
          /\ pubCalls[i].metadata.event_type = pubCalls[i].payload.event_type
          /\ pubCalls[i].metadata.provider = pubCalls[i].payload.provider
          /\ pubCalls[i].metadata.repository = pubCalls[i].payload.repository
          /\ pubCalls[i].metadata.event_type = req.eventType
          /\ pubCalls[i].metadata.provider = "github"

(***************************************************************************)
(* Properties of normalizeGitHubEvent                                      *)
(***************************************************************************)
\* C10: normalizeGitHubEvent returns an error and no event exactly when the
\* body fails to parse (it is not JSON, or not a JSON object or null); for
\* every other body and every event type, whatever fields are absent or of
\* the wrong type, it returns an event and no error.
C10_ErrorOnlyOnParseFailure ==
    normOut.called =>
        /\ normOut.err <=> normIn.body.doc.k \in {"malformed", "scalar"}
        /\ normOut.err => normOut.event.nil
        /\ ~normOut.err => ~normOut.event.nil

\* a push payload with no repository, a non-string ref and a non-object
\* head_commit was normalized without error
C10_Witness ==
    /\ normOut.called /\ ~normOut.err /\ ~normOut.event.nil
    /\ normIn.eventType = "push" /\ normIn.body.doc.k = "object"
    /\ DOMAIN normIn.body.doc.f = {"ref", "head_commit"}
    /\ normIn.body.doc.f["ref"] = Num
    /\ normIn.body.doc.f["head_commit"] = Str("abc123")

\* the payload map a parseable body decodes to (nil map for null)
InPayload == IF normIn.body.doc.k = "object" THEN normIn.body.doc.f ELSE EmptyMap

NormParseable == normIn.body.doc.k \in {"object", "null"}

\* the string at path a.b of the payload, "" when a is not an object or b
\* is not a string
Field2(a, b) ==
    IF a \in DOMAIN InPayload /\ InPayload[a].t = "obj"
       /\ b \in DOMAIN InPayload[a].f /\ InPayload[a].f[b].t = "str"
    THEN InPayload[a].f[b].s ELSE ""

KnownEventTypes == {"push", "pull_request", "release", "create", "delete"}

\* C11: for an event type other than push, pull_request, release, create
\* and delete and a parseable payload, normalization does not error; branch,
\* commit, message and url are empty, author is sender.login (else empty),
\* repository is repository.full_name, eventType is the given type,
\* provider is "github" and the timestamp is set.
C11_UnknownTypeBestEffort ==
    (normOut.called /\ NormParseable /\ normIn.eventType \notin KnownEventTypes) =>
        /\ ~normOut.err
        /\ normOut.event.Branch = "" /\ normOut.event.Commit = ""
        /\ normOut.event.Message = "" /\ normOut.event.URL = ""
        /\ normOut.event.Author = Field2("sender", "login")
        /\ normOut.event.Repository = Field2("repository", "full_name")
        /\ normOut.event.EventType = normIn.eventType
        /\ normOut.event.Provider = "github"
        /\ normOut.event.Timestamp = 1

\* a "star" payload that carries a ref, a head commit, a pull request, a
\* release and a sender: only the sender's login was taken
C11_Witness ==
    /\ normOut.called /\ normIn.eventType = "star" /\ NormParseable
    /\ {"ref", "head_commit", "pull_request", "release", "sender", "repository"}
          \subseteq DOMAIN InPayload
    /\ InPayload["ref"] = Str("refs/heads/main")
    /\ IsMapAt(InPayload, "head_commit") /\ IsMapAt(InPayload, "pull_request")
    /\ IsMapAt(InPayload, "release") /\ IsMapAt(InPayload, "repository")
    /\ normOut.event.Author = "carol" /\ normOut.event.Branch = ""
    /\ normOut.event.Repository = "owner/repo"

\* the ref field of the payload as a string ("" when absent or no string)
InRef == IF "ref" \in DOMAIN InPayload /\ InPayload["ref"].t = "str"
         THEN InPayload["ref"].s ELSE ""

\* the spelling of "refs/heads/"
RefsHeads == <<"r", "e", "f", "s", "/", "h", "e", "a", "d", "s", "/">>

StartsWithRefsHeads(cs) ==
    Len(cs) >= Len(RefsHeads) /\ \A i \in 1..Len(RefsHeads) : cs[i] = RefsHeads[i]

\* C12: for a push event the branch is the ref with one leading
\* "refs/heads/" removed and a ref without that prefix is left unchanged;
\* for create and delete events the branch is the ref verbatim.
C12_PushTrimsRefVerbatimOtherwise ==
    (normOut.called /\ ~normOut.err) =>
        /\ normIn.eventType = "push" =>
              IF StartsWithRefsHeads(Chars(InRef))
              THEN RefsHeads \o Chars(normOut.event.Branch) = Chars(InRef)
              ELSE normOut.event.Branch = InRef
        /\ normIn.eventType \in {"create", "delete"} => normOut.event.Branch = InRef

\* a create event kept "refs/heads/x"
C12_Witness ==
    /\ normOut.called /\ normIn.eventType = "create"
    /\ InRef = "refs/heads/x" /\ normOut.event.Branch = "refs/heads/x"

\* the string at head_commit.author.<key>
HeadCommitAuthor(key) ==
    IF /\ "head_commit" \in DOMAIN InPayload /\ InPayload["head_commit"].t = "obj"
       /\ "author" \in DOMAIN InPayload["head_commit"].f
       /\ InPayload["head_commit"].f["author"].t = "obj"
       /\ key \in DOMAIN InPayload["head_commit"].f["author"].f
       /\ InPayload["head_commit"].f["author"].f[key].t = "str"
    THEN InPayload["head_commit"].f["author"].f[key].s ELSE ""

\* the four sources of a push event's author, in the documented order
AuthorSources ==
    <<HeadCommitAuthor("username"), HeadCommitAuthor("name"),
      Field2("pusher", "name"), Field2("sender", "login")>>

\* C13: for a push event the author is the first non-empty value among
\* head_commit.author.username, head_commit.author.name, pusher.name and
\* sender.login, and empty only when all four are absent or empty.
C13_AuthorFirstNonEmpty ==
    (normOut.called /\ ~normOut.err /\ normIn.eventType = "push") =>
        LET nonEmpty == {i \in 1..4 : AuthorSources[i] # ""}
        IN normOut.event.Author =
             IF nonEmpty = {} THEN ""
             ELSE AuthorSources[CHOOSE i \in nonEmpty : \A j \in nonEmpty : i <= j]

\* the commit author had an empty username and a name, and pusher and
\* sender were present too: the name won
C13_Witness ==
    /\ normOut.called /\ normIn.eventType = "push"
    /\ AuthorSources = <<"", "Alice", "bob", "carol">>
    /\ normOut.event.Author = "Alice"

(***************************************************************************)
(* Properties of the status step                                           *)
(***************************************************************************)
Polling == step.kind = "status" /\ step.config.Token # "" /\ step.config.Wait

SingleFetch == step.kind = "status" /\ step.config.Token # "" /\ ~step.config.Wait

Returned == stPc = "done"

Failed(i) == calls[i].returned /\ calls[i].out.err

Reported(i, status) ==
    /\ calls[i].op = "GetWorkflowRun" /\ calls[i].returned /\ ~calls[i].out.err
    /\ calls[i].out.run.Status = status

\* C14: a failed run-status query ends the execution of the status step,
\* with wait or without: it is the last fetch made, and Execute has
\* returned the stopped result that carries the query's error.
C14_FailedFetchIsTerminal ==
    \A i \in 1..Len(calls) :
        (step.kind = "status" /\ Failed(i)) =>
            /\ i = Len(calls)
            /\ Returned
            /\ result = errorResult(FetchFailed(calls[i].out.msg))

SomeCompleted == \E i \in 1..Len(calls) : Reported(i, "completed")

\* the result shows the data of the run that fetch i reported
ShowsRun(i) ==
    /\ ~result.StopPipeline
    /\ result.Output.status = Str(calls[i].out.run.Status)
    /\ result.Output.conclusion = Str(calls[i].out.run.Conclusion)
    /\ result.Output.url = Str(calls[i].out.run.HTMLURL)

IsTimeout(res) ==
    /\ step.kind = "status" /\ res.StopPipeline
    /\ res.Output.error.s = TimeoutMessage(step.config.RunID, step.config.Timeout)

IsCancelled(res) == res.StopPipeline /\ res.Output.error.s = CancelledMessage

\* C15: with wait, a fetch that reports "completed" is the last one and
\* Execute returns at once, without another wait, a non-stopped result
\* with that fetch's status, conclusion and url; after k fetches that were
\* not terminal it has made k+1 fetches and k waits.  It returns a
\* non-stopped result in no other case.
C15_ReturnsOnFirstCompleted ==
    Polling =>
        /\ \A i \in 1..Len(calls) :
              Reported(i, "completed") =>
                  /\ i = Len(calls) /\ Returned
                  /\ ShowsRun(i)
                  /\ waits = i - 1
        /\ (Returned /\ ~result.StopPipeline) =>
              Len(calls) > 0 /\ Reported(Len(calls), "completed")

\* "in_progress" twice, then "completed": three fetches, two waits, the
\* third fetch's data returned, and no cancellation
C15_Witness ==
    /\ Polling /\ Returned /\ ~ctxDone
    /\ Len(calls) = 3 /\ waits = 2
    /\ Reported(1, "in_progress") /\ Reported(2, "in_progress")
    /\ Reported(3, "completed")
    /\ ~result.StopPipeline /\ result.Output.status = Str("completed")
    /\ result.Output.conclusion = Str("failure")

\* C16: with wait, if the context is never cancelled and no fetch reports
\* "completed", Execute eventually returns the stopped timeout result,
\* given that calls return and time advances; the select is entered only
\* while the deadline has not passed.
C16_PollingEndsWithTimeout ==
    /\ Polling ~> (Returned /\ (IsTimeout(result) \/ ctxDone \/ SomeCompleted))
    /\ [](stPc = "select" => timer - step.config.PollInterval <= deadline)

\* two fetches that were not terminal, no cancellation, and the timeout
\* result
C16_Witness ==
    /\ Polling /\ Returned /\ ~ctxDone /\ ~SomeCompleted
    /\ Len(calls) >= 2 /\ IsTimeout(result) /\ clock > deadline

\* C17: without wait (token set) Execute makes exactly one fetch and
\* returns what that fetch produced, whatever the status; it never waits,
\* never sets or checks a deadline and never reports timeout or
\* cancellation.
C17_SingleFetchNoWait ==
    SingleFetch =>
        /\ Len(calls) <= 1 /\ waits = 0
        /\ deadline = NoDeadline /\ timer = NoTimer
        /\ stPc \notin {"select", "wokenByDone"}
        /\ Returned =>
              /\ Len(calls) = 1 /\ calls[1].returned
              /\ ~IsTimeout(result) /\ ~IsCancelled(result)
              /\ IF calls[1].out.err
                 THEN /\ result.StopPipeline
                      /\ result.Output.error.s = FetchFailed(calls[1].out.msg)
                 ELSE ShowsRun(1)

\* the context was cancelled during the only fetch, which reported
\* "in_progress": that status was returned
C17_Witness ==
    /\ SingleFetch /\ Returned /\ cancelledDuring = "fetching"
    /\ Len(calls) = 1 /\ Reported(1, "in_progress")
    /\ ~result.StopPipeline /\ result.Output.status = Str("in_progress")

\* C18: once the context is cancelled the status step makes no further
\* fetch and returns a stopped result.
C18_NoFetchAfterCancel ==
    step.kind = "status" =>
        /\ \A i \in 1..Len(calls) : ~calls[i].afterCancel
        /\ (Returned /\ ctxDone) => result.StopPipeline

\* C19: a cancellation that arrives during the inter-poll wait makes
\* Execute return the cancellation result; that result is returned only
\* when the context was cancelled, the timeout result only when the
\* deadline was exceeded, and the two differ.
C19_CancelAndTimeoutDistinct ==
    (step.kind = "status" /\ Returned) =>
        /\ cancelledDuring = "select" => IsCancelled(result)
        /\ IsCancelled(result) => ctxDone /\ Polling
        /\ IsTimeout(result) => Polling /\ clock > deadline
        /\ ~(IsCancelled(result) /\ IsTimeout(result))

\* cancelled while parked in the second wait, before the deadline
C19_Witness ==
    /\ Polling /\ Returned /\ cancelledDuring = "select"
    /\ Len(calls) = 2 /\ waits = 1 /\ clock <= deadline
    /\ IsCancelled(result)

(***************************************************************************)
(* Properties common to the three steps                                    *)
(***************************************************************************)
\* C20: with an empty token, Execute of the trigger step, the status step
\* and the check step makes no call to the GitHub client and returns a
\* stopped result.
C20_MissingTokenStopsWithoutCall ==
    (step.kind \in {"trigger", "status", "check"} /\ step.config.Token = "") =>
        /\ Len(calls) = 0
        /\ stPc \in {"idle", "done"}
        /\ Returned => /\ result.StopPipeline
                       /\ result.Output.error.s = MissingToken

\* a trigger step whose owner is a template that resolves returned the
\* stopped result without a call
C20_Witness ==
    /\ step.kind = "trigger" /\ step.config.Token = ""
    /\ step.config.Owner = Chars("{{.owner}}")
    /\ Chars("owner") \in DOMAIN args.triggerData
    /\ Returned /\ result.StopPipeline /\ calls = <<>>

LastCallFailed == Len(calls) > 0 /\ Failed(Len(calls))

\* the message Execute reports for a failed call of the client
CallFailedMessage(c) ==
    CASE c.op = "TriggerWorkflow" -> TriggerFailed(c.out.msg)
      [] c.op = "CreateCheckRun" -> CheckFailed(c.out.msg)
      [] c.op = "GetWorkflowRun" -> FetchFailed(c.out.msg)

\* C21: whenever Execute of the trigger, status or check step returns, its
\* error is nil and its result is not nil; the result has StopPipeline set
\* and carries the 500 status and the message when Execute reports a
\* missing token, a failed call of the client, the timeout or the
\* cancellation, and has StopPipeline unset, with no error in its output,
\* exactly when it reports the success of its last call.
C21_ErrorsBecomeStoppedResults ==
    (step.kind \in {"trigger", "status", "check"} /\ Returned) =>
        /\ execErr = NilError
        /\ result # NoResult
        /\ step.config.Token = "" => result = errorResult(MissingToken)
        /\ LastCallFailed => result.StopPipeline
        /\ result.StopPipeline <=>
              \/ step.config.Token = ""
              \/ LastCallFailed
              \/ IsTimeout(result)
              \/ IsCancelled(result)
        /\ result.StopPipeline =>
              /\ result.Output.response_status = IntVal(500)
              /\ result = errorResult(result.Output.error.s)
              /\ result.Output.error.s \in
                    {MissingToken, CancelledMessage} \cup
                    (IF step.kind = "status"
                     THEN {TimeoutMessage(step.config.RunID, step.config.Timeout)}
                     ELSE {}) \cup
                    {CallFailedMessage(calls[i]) :
                        i \in {j \in 1..Len(calls) : Failed(j)}}
        /\ ~result.StopPipeline =>
              /\ Len(calls) > 0 /\ calls[Len(calls)].returned
              /\ ~calls[Len(calls)].out.err
              /\ "error" \notin DOMAIN result.Output

\* a check step whose CreateCheckRun call failed returned a stopped
\* result and a nil error
C21_Witness ==
    /\ step.kind = "check" /\ Returned /\ LastCallFailed
    /\ execErr = NilError
    /\ result = errorResult(CheckFailed(calls[1].out.msg))

(***************************************************************************)
(* The body limit                                                          *)
(***************************************************************************)
\* C25: a POST whose body arrives without a read error and has at most
\* 25 * 1024 * 1024 bytes, that size included, is read in full and goes
\* on to the signature check; one with a longer body is answered 400
\* "failed to read body" right after the read, with no signature check,
\* no normalization and no publish; readLimitedBody reads at most one
\* byte more than the limit.
C25_BodyLimit ==
    (InFlight /\ req.method = "POST" /\ ~req.ioErr /\ Len(steps) >= 2) =>
        /\ readLimitedBody(req, 25 * 1024 * 1024).read <= 25 * 1024 * 1024 + 1
        /\ IF req.len <= 25 * 1024 * 1024
           THEN /\ body = SentBody
                /\ readLimitedBody(req, 25 * 1024 * 1024).read = req.len
                /\ Len(steps) = 2 => (pc = "signature" /\ resp = <<>>)
                /\ Len(steps) >= 3 => steps[3] = "signature"
           ELSE /\ pc = "done" /\ steps = <<"method", "read">>
                /\ resp = <<Response(400, "failed to read body")>>
                /\ body = NoBody /\ event = NoEvent /\ pubCalls = <<>>

\* a body of exactly 25 MiB was accepted and published
C25_Witness ==
    /\ InFlight /\ req.method = "POST" /\ req.len = 25 * 1024 * 1024
    /\ body.len = 25 * 1024 * 1024
    /\ pc = "done" /\ resp = <<Accepted>> /\ Len(pubCalls) = 1

(***************************************************************************)
(* Properties of the check step's construction                             *)
(***************************************************************************)
\* newCreateCheckStep has returned
Constructed == step.kind # "new"

\* owner, repo, sha and name are what parseCreateCheckConfig requires
RequiredGiven ==
    \A k \in {"owner", "repo", "sha", "name"} : StringAt(step.raw, k) # ""

ConclusionRequired == <<"config.conclusion is required when status=completed">>

\* C22: with the required fields given and no conclusion (the key absent
\* or the empty string), constructing a check step succeeds for status
\* "queued" and "in_progress" and for no status, which becomes "queued",
\* and the config has the empty conclusion; for status "completed" it
\* fails with the error that the conclusion is required.
C22_ConclusionOnlyForCompleted ==
    (Constructed /\ RequiredGiven /\ StringAt(step.raw, "conclusion") = "") =>
        /\ StringAt(step.raw, "status") \in {"queued", "in_progress"} =>
              /\ step.kind = "check"
              /\ step.config.Status = StringAt(step.raw, "status")
              /\ step.config.Conclusion = ""
        /\ StringAt(step.raw, "status") = "" =>
              /\ step.kind = "check"
              /\ step.config.Status = "queued"
              /\ step.config.Conclusion = ""
        /\ StringAt(step.raw, "status") = "completed" =>
              step.kind = "none" /\ step.err = ConclusionRequired

\* a step without status and conclusion was built as "queued" and its
\* request was sent with that status and no conclusion
C22_Witness ==
    /\ Constructed /\ RequiredGiven
    /\ "status" \notin DOMAIN step.raw /\ "conclusion" \notin DOMAIN step.raw
    /\ step.kind = "check" /\ step.config.Status = "queued"
    /\ Len(calls) = 1 /\ calls[1].req.Status = "queued"
    /\ calls[1].req.Conclusion = ""

\* C30: with the required fields given and a valid status (or none), a
\* non-empty conclusion outside the fixed set makes construction fail with
\* the error about the conclusion, whatever the status is; a conclusion of
\* the set makes it succeed, and the request Execute sends carries that
\* conclusion beside the configured status.
C30_ConclusionValidatedForEveryStatus ==
    LET status == StringAt(step.raw, "status")
        conclusion == StringAt(step.raw, "conclusion")
    IN (/\ Constructed /\ RequiredGiven
        /\ status \in validStatuses \cup {""}
        /\ conclusion # "") =>
           IF conclusion \in validConclusions
           THEN /\ step.kind = "check"
                /\ step.config.Conclusion = conclusion
                /\ \A i \in 1..Len(calls) :
                      /\ calls[i].req.Conclusion = conclusion
                      /\ calls[i].req.Status = step.config.Status
           ELSE /\ step.kind = "none"
                /\ step.err = <<"config.conclusion %q is invalid", conclusion>>

\* an "in_progress" check with conclusion "timed_out" was built and its
\* request sent with both
C30_Witness ==
    /\ Constructed /\ step.kind = "check"
    /\ StringAt(step.raw, "status") = "in_progress"
    /\ StringAt(step.raw, "conclusion") = "timed_out"
    /\ Len(calls) = 1 /\ calls[1].req.Status = "in_progress"
    /\ calls[1].req.Conclusion = "timed_out"

(***************************************************************************)
(* Properties of the status step's construction                            *)
(***************************************************************************)
\* the run the documented reference names in the arguments of Execute
ReferencedRunID ==
    ParseInt(resolveField(Chars(DocumentedRunID.s), args.triggerData,
                          args.stepOutputs, args.current).value).n

\* C26: with owner and repo given and run_id the reference of the step's
\* documentation, "{{.steps.trigger.run_id}}", constructing the status
\* step succeeds, and every fetch of its Execute asks for the run that the
\* reference names in the step outputs passed to Execute.
C26_DocumentedRunIDAccepted ==
    (/\ Constructed
     /\ StringAt(step.raw, "owner") # "" /\ StringAt(step.raw, "repo") # ""
     /\ "run_id" \in DOMAIN step.raw /\ step.raw["run_id"] = DocumentedRunID
     /\ StringAt(step.raw, "timeout") # "soon") =>
        /\ step.kind = "status"
        /\ \A i \in 1..Len(calls) : calls[i].runID = ReferencedRunID

(***************************************************************************)
(* Properties of resolveField                                              *)
(***************************************************************************)
ResolveReturned == resolveOut.pc = "returned"

\* no value of the data holds a placeholder
PlainData ==
    /\ \A k \in DOMAIN resolveIn.triggerData :
          ~Contains(resolveIn.triggerData[k], Chars("{{"))
    /\ \A st \in DOMAIN resolveIn.stepOutputs :
          \A k \in DOMAIN resolveIn.stepOutputs[st] :
             ~Contains(resolveIn.stepOutputs[st][k], Chars("{{"))
    /\ \A k \in DOMAIN resolveIn.current :
          ~Contains(resolveIn.current[k], Chars("{{"))

RECURSIVE Scan(_)
\* One pass over a configured value, left to right, a placeholder being
\* "{{" up to the next "}}": `out` is the value with every placeholder
\* that the data resolves replaced once and every other one left as it is,
\* `n` the number of placeholders, `unresolved` how many of them the data
\* does not resolve, `stray` whether a "}}" stands before a placeholder or
\* a "{{" is never closed.
Scan(v) ==
    LET s == Index(v, Chars("{{"))
        rest == SubSeq(v, s + 2, Len(v))
        e == Index(rest, Chars("}}"))
        r == lookupRef(TrimSpace(SubSeq(rest, 1, e - 1)), resolveIn.triggerData,
                       resolveIn.stepOutputs, resolveIn.current)
        t == Scan(SubSeq(rest, e + 2, Len(rest)))
    IN IF s = 0 THEN [out |-> v, n |-> 0, unresolved |-> 0, stray |-> FALSE]
       ELSE IF e = 0 THEN [out |-> v, n |-> 0, unresolved |-> 0, stray |-> TRUE]
       ELSE [out |-> SubSeq(v, 1, s - 1)
                       \o (IF r.ok THEN r.v ELSE SubSeq(v, s, s + e + 2))
                       \o t.out,
             n |-> 1 + t.n,
             unresolved |-> (IF r.ok THEN 0 ELSE 1) + t.unresolved,
             stray |-> t.stray \/ (Index(v, Chars("}}")) < s)]

\* C24: (data without placeholders, a value whose "{{" and "}}" pair up)
\* resolveField returns the value with every placeholder that the data
\* resolves replaced and every other placeholder left as it is, also when
\* an unresolvable placeholder stands before a resolvable one.
C24_EveryResolvablePlaceholderReplaced ==
    (ResolveReturned /\ PlainData /\ ~Scan(resolveIn.value).stray) =>
        resolveOut.result = Scan(resolveIn.value).out

\* C27: every call of resolveField returns, whatever the value and the
\* data are.  The loop depends on nothing but its local `result` and the
\* data, so a call that returns has no iteration that replaces a
\* placeholder, leaves `result` as it found it and goes on to the next
\* iteration: such an iteration would be repeated for ever.
C27_ResolveFieldTerminates ==
    [][(resolveOut.pc = "loop" /\ resolveOut'.pc = "loop") =>
           resolveOut'.result # resolveOut.result]_vars

\* C28: resolveField replaces no more placeholders than the configured
\* value holds, whatever the data holds; when all of them resolve (and
\* "{{" and "}}" pair up) it returns the value with each of them replaced
\* once by the text found in the data, that text taken as it is.
C28_SubstitutedTextNotExpanded ==
    /\ resolveIn.called => resolveOut.iterations <= Scan(resolveIn.value).n
    /\ (/\ ResolveReturned
        /\ ~Scan(resolveIn.value).stray
        /\ Scan(resolveIn.value).unresolved = 0) =>
            resolveOut.result = Scan(resolveIn.value).out

(***************************************************************************)
(* The order of the checks after a fetch                                   *)
(***************************************************************************)
\* C29: with wait, a fetch that reports "completed" is the last one and
\* Execute returns that run's data without StopPipeline, whether or not
\* the deadline has passed or the context is cancelled by then; Execute
\* returns the timeout result only straight after a returned fetch that
\* did not report "completed", with no wait in between; and at most one
\* fetch is started after the deadline has passed.
C29_CompletedBeatsDeadline ==
    Polling =>
        /\ \A i \in 1..Len(calls) :
              Reported(i, "completed") =>
                  /\ Returned /\ i = Len(calls)
                  /\ ShowsRun(i)
        /\ (Returned /\ IsTimeout(result)) =>
              /\ Len(calls) > 0 /\ calls[Len(calls)].returned
              /\ ~Reported(Len(calls), "completed")
              /\ waits = Len(calls) - 1
        /\ Cardinality({i \in 1..Len(calls) : calls[i].afterDeadline}) <= 1

\* a fetch started after the deadline and answered after the cancellation
\* reported "completed": the success result was returned
C29_Witness ==
    /\ Polling /\ Returned /\ ctxDone /\ cancelledDuring = "fetching"
    /\ clock > deadline
    /\ Len(calls) = 2 /\ calls[2].afterDeadline
    /\ Reported(2, "completed")
    /\ ~result.StopPipeline /\ result.Output.status = Str("completed")

(***************************************************************************)
(* Concurrent deliveries and executions                                    *)
(***************************************************************************)
\* what the running handler holds comes from its own request: the body it
\* read, the event type, the event normalized from that body, the publish
\* call made with that event, and the one response of its own request
DeliveryAlone ==
    /\ body \in {NoBody, SentBody}
    /\ eventType \in {"", req.eventType}
    /\ event \in {NoEvent} \cup
                 {normalizeGitHubEvent(req.eventType, SentBody, t).event :
                     t \in 0..MaxDeliveries}
    /\ Len(pubCalls) <= 1
    /\ \A i \in 1..Len(pubCalls) :
          pubCalls[i] = PublishCall(event, jsonMarshal(event).json, pubCalls[i].err)
    /\ Len(steps) <= Len(Order)
    /\ \A i \in 1..Len(steps) : steps[i] = Order[i]
    /\ pc = "done" => /\ resp = <<FirstFailure.r>>
                      /\ Len(steps) = FirstFailure.n

\* what the running Execute holds comes from its own arguments, its own
\* context and the answers to its own calls
ExecuteAlone ==
    /\ step.kind \in {"trigger", "check"} =>
          /\ Len(calls) <= 1
          /\ \A i \in 1..Len(calls) :
                /\ calls[i].owner = Resolve(step.config.Owner).value
                /\ calls[i].repo = Resolve(step.config.Repo).value
                /\ calls[i].token = step.config.Token
          /\ stPc = "done" /\ step.config.Token # "" => Len(calls) = 1
    /\ step.kind = "trigger" =>
          /\ \A i \in 1..Len(calls) :
                /\ calls[i].workflow = Resolve(step.config.Workflow).value
                /\ calls[i].ref = Resolve(step.config.Ref).value
                /\ \A k \in DOMAIN step.config.Inputs :
                      calls[i].inputs[k] = Resolve(step.config.Inputs[k]).value
          /\ stPc = "done" /\ step.config.Token # "" =>
                result = IF calls[1].out.err
                         THEN errorResult(TriggerFailed(calls[1].out.msg))
                         ELSE [StopPipeline |-> FALSE,
                               Output |-> [triggered |-> BoolVal(TRUE),
                                           owner |-> Str(calls[1].owner),
                                           repo |-> Str(calls[1].repo),
                                           workflow |-> Str(calls[1].workflow),
                                           ref |-> Str(calls[1].ref)]]
    /\ step.kind = "check" =>
          /\ \A i \in 1..Len(calls) :
                calls[i].req.HeadSHA = Resolve(step.config.SHA).value
          /\ stPc = "done" /\ step.config.Token # "" =>
                result = IF calls[1].out.err
                         THEN errorResult(CheckFailed(calls[1].out.msg))
                         ELSE [StopPipeline |-> FALSE,
                               Output |-> [check_run_id |-> IntVal(calls[1].out.check.ID),
                                           status |-> Str(calls[1].out.check.Status),
                                           url |-> Str(calls[1].out.check.HTMLURL)]]
    /\ step.kind = "status" =>
          /\ \A i \in 1..Len(calls) :
                /\ calls[i].runID = step.config.RunID
                /\ calls[i].afterCancel => ctxDone
                /\ i < Len(calls) => calls[i].returned
          /\ stPc = "done" /\ step.config.Token # "" =>
                /\ Len(calls) >= 1
                /\ \/ result = fetchStatus(calls[Len(calls)].out)
                   \/ /\ step.config.Wait
                      /\ result = errorResult(CancelledMessage)
                      /\ ctxDone
                   \/ /\ step.config.Wait
                      /\ result = errorResult(TimeoutMessage(step.config.RunID,
                                                             step.config.Timeout))
                      /\ clock > deadline
                /\ ~step.config.Wait => Len(calls) = 1

\* C23: with two goroutines in flight (two deliveries, or two Execute calls
\* on the same step) and the scheduler switching between them at any step,
\* what the running handler holds comes from its own request alone, its
\* publish call carries its own event, and when it is done its single
\* response and the checks it ran are those of its own request taken
\* alone; the calls and the result of the running Execute are those of its
\* own arguments, its own context and the answers to its own calls.
C23_GoroutinesDoNotInterfere ==
    /\ parked # NoParked
    /\ DeliveryAlone
    /\ ExecuteAlone

\* the running handler accepted and published its push while the other
\* goroutine holds a delivery that was refused for its signature
C23_Witness ==
    /\ parked # NoParked
    /\ pc = "done" /\ resp = <<Accepted>> /\ Len(pubCalls) = 1
    /\ parked.handler.pc = "done" /\ parked.handler.resp # <<>>
    /\ parked.handler.resp[1].code = 401
    /\ parked.handler.req # req

====
